---------------------------- MODULE Spec2Model ----------------------------
(***************************************************************************)
(* Model of the HDF5 spatial cropping engine (src/src/cropper/             *)
(* SpaceCropping.py) and of the gap-filling step of the interpolation      *)
(* engine (src/src/interpolation/main_new.py).                             *)
(*                                                                         *)
(* Angles are integers in tenths of a degree (180 degrees = 1800), so the  *)
(* fill value -9999.9 is the integer -99999.  Array indices are 0-based as *)
(* in numpy; TLA+ sequences are 1-based, so element i of a Python list is  *)
(* s[i+1].  An n-dimensional array is a record [shape, at] where           *)
(* at maps every index tuple of the shape to the element stored there.     *)
(***************************************************************************)
EXTENDS Integers, Sequences, FiniteSets, TLC

----------------------------------------------------------------------------
(* Generic helpers *)

Max(a, b) == IF a >= b THEN a ELSE b

Min(a, b) == IF a <= b THEN a ELSE b

\* Python's None for an Optional[int]
None == -1

\* the sequence <<0, 1, ..., n-1>> (Python range(n), slice(None) on an axis)
Range(n) == [i \in 1..n |-> i - 1]

SeqToSet(s) == {s[i] : i \in 1..Len(s)}

RECURSIVE SortedSeq(_)
\* sorted(set(S)) for a finite set of integers
SortedSeq(S) ==
    IF S = {} THEN <<>>
    ELSE LET m == CHOOSE x \in S : \A y \in S : x <= y
         IN  <<m>> \o SortedSeq(S \ {m})

\* every index tuple of an array of the given shape
IndexSet(shape) ==
    LET n == Len(shape)
        top == IF n = 0 THEN 0
               ELSE (CHOOSE m \in SeqToSet(shape) : \A k \in SeqToSet(shape) : k <= m) - 1
    IN  {s \in [1..n -> 0..top] : \A k \in 1..n : s[k] < shape[k]}

\* numpy outer indexing (np.ix_, or one index list per axis): sel[k] is the
\* list of indices kept on axis k
Take(arr, sel) ==
    LET shp == [k \in 1..Len(sel) |-> Len(sel[k])]
    IN  [shape |-> shp,
         at    |-> [idx \in IndexSet(shp) |->
                      arr.at[[k \in 1..Len(sel) |-> sel[k][idx[k] + 1]]]]]

\* the selection that keeps every axis whole
FullSel(shape) == [k \in 1..Len(shape) |-> Range(shape[k])]

----------------------------------------------------------------------------
(* SpaceCropping.py: pure parts *)

\* CUSTOM fill value of coordinate arrays, -9999.9 degrees
fill_value == -99999

(* float64.  The arguments of crop_file and the coordinates of a file are
   the doubles nearest to a number of tenths of a degree; their order is the
   order of the tenths, so the model keeps them as integers.  The longitudes
   that normalize_coordinates computes are other doubles: the sum
   lon + 180 is rounded.  Such a double is [neg, mag], mag = <<l3, l2, l1>>
   standing for (l3 * Limb^2 + l2 * Limb + l1) / 2^56 with l2, l1 < Limb;
   every double of magnitude 2^-4 or more is of that form. *)
Limb == 2^24

\* F applied to the value of v, v being evaluated once
Eager(v, F(_)) == CHOOSE y \in {F(x) : x \in {v}} : TRUE

MagZero == <<0, 0, 0>>

MagAdd(a, b) ==
    LET s1 == a[3] + b[3]
        s2 == a[2] + b[2] + s1 \div Limb
    IN  << a[1] + b[1] + s2 \div Limb, s2 % Limb, s1 % Limb >>

MagLeq(a, b) ==
    \/ a[1] < b[1]
    \/ a[1] = b[1] /\ (a[2] < b[2] \/ (a[2] = b[2] /\ a[3] <= b[3]))

\* a - b for b <= a
MagSub(a, b) ==
    LET d1 == a[3] - b[3]
        b1 == IF d1 < 0 THEN 1 ELSE 0
        d2 == a[2] - b[2] - b1
        b2 == IF d2 < 0 THEN 1 ELSE 0
    IN  << a[1] - b[1] - b2, d2 + b2 * Limb, d1 + b1 * Limb >>

RECURSIVE BitLen(_)
BitLen(n) == IF n = 0 THEN 0 ELSE 1 + BitLen(n \div 2)

\* the number of significant bits of a magnitude
MagBits(m) ==
    IF m[1] > 0 THEN 48 + BitLen(m[1])
    ELSE IF m[2] > 0 THEN 24 + BitLen(m[2])
    ELSE BitLen(m[3])

\* IEEE 754 round to nearest, ties to even, to the 53 bits of a double, of
\* the magnitude m + (rem / den) / 2^56, 0 <= rem < den
RoundMag(mag, rem, den) ==
    Eager(mag, LAMBDA m :
        Eager(2^Max(MagBits(m) - 53, 0), LAMBDA unit :
            LET low  == m[3] % unit
                base == << m[1], m[2], m[3] - low >>
                odd  == (m[3] \div unit) % 2 = 1
                up   == IF unit = 1
                        THEN 2 * rem > den \/ (2 * rem = den /\ odd)
                        ELSE \/ 2 * low > unit
                             \/ 2 * low = unit /\ (rem > 0 \/ odd)
            IN  IF up THEN MagAdd(base, <<0, 0, unit>>) ELSE base))

\* the double nearest to x / 10
F64FromTenths(tenths) ==
    Eager(tenths, LAMBDA x :
        LET a  == IF x < 0 THEN -x ELSE x
            c1 == a * 2^8
            c2 == (c1 % 10) * Limb
            c3 == (c2 % 10) * Limb
        IN  [neg |-> x < 0,
             mag |-> RoundMag(<< c1 \div 10, c2 \div 10, c3 \div 10 >>, c3 % 10, 10)])

\* a + b of two doubles: the exact sum, rounded
F64Add(x, y) ==
    Eager(<<x, y>>, LAMBDA t :
        LET a == t[1]
            b == t[2]
        IN  IF a.neg = b.neg
            THEN [neg |-> a.neg, mag |-> RoundMag(MagAdd(a.mag, b.mag), 0, 1)]
            ELSE IF MagLeq(b.mag, a.mag)
            THEN [neg |-> a.neg /\ a.mag # b.mag,
                  mag |-> RoundMag(MagSub(a.mag, b.mag), 0, 1)]
            ELSE [neg |-> b.neg, mag |-> RoundMag(MagSub(b.mag, a.mag), 0, 1)])

F64Sub(a, b) == F64Add(a, [b EXCEPT !.neg = ~@])

\* C fmod of two magnitudes, which is exact
RECURSIVE MagMod(_, _)
MagMod(mag, d) ==
    Eager(mag, LAMBDA m : IF MagLeq(d, m) THEN MagMod(MagSub(m, d), d) ELSE m)

\* Python's a % b on floats, b > 0: fmod(a, b), and b added to a negative
\* remainder
PyMod(x, y) ==
    Eager(<<x, y>>, LAMBDA t :
        Eager(MagMod(t[1].mag, t[2].mag), LAMBDA m :
            IF m = MagZero THEN [neg |-> FALSE, mag |-> MagZero]
            ELSE IF t[1].neg THEN F64Add([neg |-> TRUE, mag |-> m], t[2])
            ELSE [neg |-> FALSE, mag |-> m]))

F64Less(x, y) ==
    Eager(<<x, y>>, LAMBDA t :
        LET a == t[1]
            b == t[2]
        IN  IF a.neg # b.neg THEN a.neg /\ (a.mag # MagZero \/ b.mag # MagZero)
            ELSE IF a.neg THEN ~MagLeq(a.mag, b.mag)
            ELSE ~MagLeq(b.mag, a.mag))

F64Leq(a, b) == ~F64Less(b, a)

\* HDF5Cropper.normalize_coordinates: <<lat_min, lat_max, lon_min, lon_max>>,
\* the latitudes in tenths, the longitudes as the doubles computed
normalize_coordinates(lat_min, lat_max, lon_min, lon_max) ==
    << Max(-900, lat_min),
       Min(900, lat_max),
       F64Sub(PyMod(F64Add(F64FromTenths(lon_min), F64FromTenths(1800)),
                    F64FromTenths(3600)),
              F64FromTenths(1800)),
       F64Sub(PyMod(F64Add(F64FromTenths(lon_max), F64FromTenths(1800)),
                    F64FromTenths(3600)),
              F64FromTenths(1800)) >>

\* crop_file: the longitude ranges of a normalized box, split at the antimeridian
lon_ranges_of(lon_min, lon_max) ==
    IF F64Less(lon_max, lon_min)
    THEN << <<lon_min, F64FromTenths(1800)>>, <<F64FromTenths(-1800), lon_max>> >>
    ELSE << <<lon_min, lon_max>> >>

\* (lons >= lo) & (lons <= hi) for one value of a float64 coordinate array
InLonRange(v, lo, hi) ==
    Eager(F64FromTenths(v), LAMBDA lon : F64Leq(lo, lon) /\ F64Leq(lon, hi))

\* the same, ORed over the ranges
InLonRanges(v, lon_ranges) ==
    \E r \in 1..Len(lon_ranges) : InLonRange(v, lon_ranges[r][1], lon_ranges[r][2])

InLatRange(v, lat_min, lat_max) == v >= lat_min /\ v <= lat_max

\* the 1D branch, were only the first longitude range looked at
GetIndices1D_FirstRange(lats, lons, lat_min, lat_max, lon_ranges) ==
    [lat_indices |->
        SortedSeq({i \in 0..(lats.shape[1] - 1) :
                     InLatRange(lats.at[<<i>>], lat_min, lat_max)}),
     all_lon_indices |->
        SortedSeq({i \in 0..(lons.shape[1] - 1) :
                     InLonRange(lons.at[<<i>>], lon_ranges[1][1], lon_ranges[1][2])}),
     is_2d_grid |-> FALSE]

\* _get_indices, 1D branch: np.where(...)[0] for the latitudes and
\* sorted(set(...)) of the per-range np.where results for the longitudes
GetIndices1D(lats, lons, lat_min, lat_max, lon_ranges) ==
    [lat_indices |->
        SortedSeq({i \in 0..(lats.shape[1] - 1) :
                     InLatRange(lats.at[<<i>>], lat_min, lat_max)}),
     all_lon_indices |->
        SortedSeq(UNION {{i \in 0..(lons.shape[1] - 1) :
                            InLonRange(lons.at[<<i>>], lon_ranges[r][1], lon_ranges[r][2])}
                         : r \in 1..Len(lon_ranges)}),
     is_2d_grid |-> FALSE]

\* the combined mask, were only the first longitude range looked at
CombinedMask_FirstRange(lats, lons, lat_min, lat_max, lon_ranges) ==
    {c \in IndexSet(lats.shape) :
        /\ InLatRange(lats.at[c], lat_min, lat_max)
        /\ InLonRange(lons.at[c], lon_ranges[1][1], lon_ranges[1][2])}

\* _get_indices, 2D branch: the combined mask and the unique rows and columns
\* that hold one of its cells
CombinedMask(lats, lons, lat_min, lat_max, lon_ranges) ==
    {c \in IndexSet(lats.shape) :
        InLatRange(lats.at[c], lat_min, lat_max) /\ InLonRanges(lons.at[c], lon_ranges)}

GetIndices2D(lats, lons, lat_min, lat_max, lon_ranges) ==
    LET mask == CombinedMask(lats, lons, lat_min, lat_max, lon_ranges)
    IN  [lat_indices     |-> SortedSeq({c[1] : c \in mask}),
         all_lon_indices |-> SortedSeq({c[2] : c \in mask}),
         is_2d_grid      |-> TRUE]

\* _get_indices: [err, lat_indices, all_lon_indices, is_2d_grid]; err is "" when
\* the indices are returned and the name of the raised exception otherwise.
\* The two fields of a 2D pair have the same shape.
get_indices(lats, lons, lat_min, lat_max, lon_ranges) ==
    LET none == [lat_indices |-> <<>>, all_lon_indices |-> <<>>, is_2d_grid |-> FALSE]
        fail(e) == [err |-> e] @@ none
    IN  IF Len(lats.shape) = 1 /\ Len(lons.shape) = 1
        THEN LET r == GetIndices1D(lats, lons, lat_min, lat_max, lon_ranges)
             IN  IF Len(r.lat_indices) = 0 \/ Len(r.all_lon_indices) = 0
                 THEN fail("HDF5CropperError")
                 ELSE [err |-> ""] @@ r
        ELSE IF Len(lats.shape) = 2 /\ Len(lons.shape) = 2
        THEN IF CombinedMask(lats, lons, lat_min, lat_max, lon_ranges) = {}
             THEN fail("HDF5CropperError")
             ELSE [err |-> ""] @@ GetIndices2D(lats, lons, lat_min, lat_max, lon_ranges)
        ELSE fail("HDF5CropperError")

\* _process_coordinates: the cropped latitude and longitude arrays
CropCoordinate(coord, lat_indices, all_lon_indices, is_2d_grid, own_indices) ==
    IF is_2d_grid
    THEN Take(coord, <<lat_indices, all_lon_indices>>)
    ELSE Take(coord, <<own_indices>>)

\* the last axis of data_shape (0-based) whose length is n, None when there is
\* none: the loop of the 1D branch assigns on every match
LastAxisOfLength(data_shape, n) ==
    LET hits == {i \in 0..(Len(data_shape) - 1) : data_shape[i + 1] = n}
    IN  IF hits = {} THEN None ELSE CHOOSE i \in hits : \A j \in hits : j <= i

\* the axes of data_shape other than a and b, in order (extra_dims)
OtherAxes(data_shape, a, b) ==
    SortedSeq({j \in 0..(Len(data_shape) - 1) : j # a /\ j # b})

\* a fallback loop that assigns on every match, as the loop of the 1D branch
\* does, instead of keeping the first match of each axis
RECURSIVE SeparateMatch_EveryMatch(_, _, _)
SeparateMatch_EveryMatch(data_shape, lat_shape, upto) ==
    IF upto = 0 THEN <<None, None>>
    ELSE LET prev == SeparateMatch_EveryMatch(data_shape, lat_shape, upto - 1)
             i    == upto - 1
             size == data_shape[upto]
         IN  IF size = lat_shape[1] THEN <<i, prev[2]>>
             ELSE IF size = lat_shape[2] THEN <<prev[1], i>>
             ELSE prev

\* the 2D fallback loop (lines 245-251), run over the axes 0..upto-1:
\* <<lat_dim, lon_dim>>
RECURSIVE SeparateMatch(_, _, _)
SeparateMatch(data_shape, lat_shape, upto) ==
    IF upto = 0 THEN <<None, None>>
    ELSE LET prev == SeparateMatch(data_shape, lat_shape, upto - 1)
             i    == upto - 1
             size == data_shape[upto]
         IN  IF size = lat_shape[1] /\ prev[1] = None THEN <<i, prev[2]>>
             ELSE IF size = lat_shape[2] /\ prev[2] = None THEN <<prev[1], i>>
             ELSE prev

\* DimensionAnalyzer.find_lat_lon_dimensions; extra_dims = None is the empty
\* sequence (the caller tests "is not None and len > 0")
find_lat_lon_dimensions(lat_shape, lon_shape, data_shape) ==
    LET nothing == [lat_dim |-> None, lon_dim |-> None, is_2d_grid |-> FALSE,
                    extra_dims |-> <<>>]
    IN  IF Len(lat_shape) = 1 /\ Len(lon_shape) = 1
        THEN [lat_dim |-> LastAxisOfLength(data_shape, lat_shape[1]),
              lon_dim |-> LastAxisOfLength(data_shape, lon_shape[1]),
              is_2d_grid |-> FALSE, extra_dims |-> <<>>]
        ELSE IF Len(lat_shape) = 2 /\ Len(lon_shape) = 2
        THEN LET adj == {i \in 0..(Len(data_shape) - 2) :
                           data_shape[i + 1] = lat_shape[1]
                           /\ data_shape[i + 2] = lat_shape[2]}
                 sep == SeparateMatch(data_shape, lat_shape, Len(data_shape))
             IN  IF adj # {}
                 THEN LET i == CHOOSE x \in adj : \A y \in adj : x <= y
                      IN  [lat_dim |-> i, lon_dim |-> i + 1, is_2d_grid |-> TRUE,
                           extra_dims |-> OtherAxes(data_shape, i, i + 1)]
                 ELSE IF sep[1] # None /\ sep[2] # None
                 THEN [lat_dim |-> sep[1], lon_dim |-> sep[2], is_2d_grid |-> TRUE,
                       extra_dims |-> OtherAxes(data_shape, sep[1], sep[2])]
                 ELSE nothing
        ELSE nothing

\* numpy indexing data[tuple(indices)] with the index arrays li on axis
\* lat_dim, lo on axis lon_dim and slice(None) elsewhere: the two index arrays
\* are broadcast against each other and paired element by element.  The
\* paired axis takes the place of the two indexed axes when they are
\* adjacent and comes first otherwise.  [err, data]; err = "IndexError" when
\* the index arrays cannot be broadcast.
PairedTake(arr, lat_dim, lon_dim, li, lo) ==
    LET n     == Len(arr.shape)
        a     == Len(li)
        b     == Len(lo)
        first == Min(lat_dim, lon_dim)
        last  == Max(lat_dim, lon_dim)
        rest  == OtherAxes(arr.shape, lat_dim, lon_dim)
        \* the result's axes: a source axis, or None for the paired axis
        axes  == IF last = first + 1
                 THEN [j \in 1..(n - 1) |->
                         IF j - 1 < first THEN j - 1
                         ELSE IF j - 1 = first THEN None ELSE j]
                 ELSE <<None>> \o rest
        bl    == Max(a, b)
        shp   == [j \in 1..Len(axes) |->
                    IF axes[j] = None THEN bl ELSE arr.shape[axes[j] + 1]]
        posOf(k) == CHOOSE j \in 1..Len(axes) : axes[j] = k
        pick(ix, p) == IF Len(ix) = 1 THEN ix[1] ELSE ix[p + 1]
    IN  IF a # b /\ a # 1 /\ b # 1
        THEN [err |-> "IndexError", data |-> arr]
        ELSE [err |-> "",
              data |-> [shape |-> shp,
                        at |-> [idx \in IndexSet(shp) |->
                                  arr.at[[k \in 1..n |->
                                     IF k - 1 = lat_dim THEN pick(li, idx[posOf(None)])
                                     ELSE IF k - 1 = lon_dim THEN pick(lo, idx[posOf(None)])
                                     ELSE idx[posOf(k - 1)]]]]]]

\* DataCropper.crop_multidim_2d_grid on the array read from the dataset
crop_multidim_2d_grid(data, lat_indices, lon_indices, lat_dim, lon_dim, extra_dims) ==
    IF Len(data.shape) = 3 /\ lat_dim = 0 /\ lon_dim = 1
    THEN [err |-> "",
          data |-> Take(data, <<lat_indices, lon_indices, Range(data.shape[3])>>)]
    ELSE PairedTake(data, lat_dim, lon_dim, lat_indices, lon_indices)

\* whether every index of ix is valid on an axis of the given length
InBounds(ix, length) == \A i \in 1..Len(ix) : ix[i] < length

\* HDF5Cropper._crop_dataset: [tag, data] with tag "ok" (data is the cropped
\* array), "skip" (None is returned) or the name of the exception raised.
\* In the 1D branch the h5py dataset itself is indexed: h5py accepts one
\* index list per selection and raises TypeError for two.
crop_dataset(dataset, lats, lons, lat_indices, all_lon_indices) ==
    LET d == find_lat_lon_dimensions(lats.shape, lons.shape, dataset.shape)
        out(t, x) == [tag |-> t, data |-> x]
    IN  IF d.lat_dim = None \/ d.lon_dim = None
        THEN out("skip", dataset)
        ELSE IF d.is_2d_grid
        THEN IF Len(d.extra_dims) > 0
             THEN LET r == crop_multidim_2d_grid(dataset, lat_indices, all_lon_indices,
                                                 d.lat_dim, d.lon_dim, d.extra_dims)
                  IN  IF r.err = "" THEN out("ok", r.data) ELSE out(r.err, dataset)
             ELSE IF Len(dataset.shape) = 2
             THEN IF InBounds(lat_indices, dataset.shape[1])
                     /\ InBounds(all_lon_indices, dataset.shape[2])
                  THEN out("ok", Take(dataset, <<lat_indices, all_lon_indices>>))
                  ELSE out("IndexError", dataset)
             ELSE out("skip", dataset)
        ELSE IF d.lat_dim # d.lon_dim
        THEN out("TypeError", dataset)
        ELSE out("ok", Take(dataset,
                            [k \in 1..Len(dataset.shape) |->
                               IF k - 1 = d.lon_dim THEN all_lon_indices
                               ELSE Range(dataset.shape[k])]))

----------------------------------------------------------------------------
(* HDF5 files: [groups, dsets].  A path is the sequence of its parts, the    *)
(* root group is <<>>; groups is the set of group paths other than the root, *)
(* dsets maps the path of every dataset to its array.                        *)

NoDatasets == [p \in {} |-> 0]

EmptyFile == [groups |-> {}, dsets |-> NoDatasets]

\* h5py "name in group", the name given as a path relative to the group
Contains(file, group, rel) ==
    rel # <<>> /\ ((group \o rel) \in file.groups \/ (group \o rel) \in DOMAIN file.dsets)

\* the file holds a group at the path
HasGroup(file, path) == path = <<>> \/ path \in file.groups

\* the names of the datasets directly inside a group, in h5py's iteration
\* order (by name); names lists every candidate name in that order
DatasetNames(file, group, names) ==
    SelectSeq(names, LAMBDA nm : (group \o <<nm>>) \in DOMAIN file.dsets)

\* del group[name] if present, then group.create_dataset(name, data=arr)
WriteDataset(file, group, name, arr) ==
    [file EXCEPT !.dsets = ((group \o <<name>>) :> arr) @@ file.dsets]

\* a group argument of crop_file: None, or a string.  raw is the string as
\* the sequence of the parts that "/" separates in it, empty parts included
\* ("" is <<"">>, "/G/H" is <<"", "G", "H">>); parts are the parts that are
\* not empty, which create_hierarchy (lines 159, 164) and HDF5 walk through
GroupNone == [none |-> TRUE, raw |-> <<>>, parts |-> <<>>]

GroupAt(raw) == [none |-> FALSE, raw |-> raw, parts |-> SelectSeq(raw, LAMBDA part : part # "")]

\* the file holds a dataset at the path
HasDataset(file, path) == path \in DOMAIN file.dsets

\* h5py fin[group_path] (lines 454, 461) returns the object at the path, a
\* group or a dataset: the empty string names nothing
Opens(file, group_path) ==
    /\ group_path.raw # <<"">>
    /\ (HasGroup(file, group_path.parts) \/ HasDataset(file, group_path.parts))

\* the number of elements of one row arr[i] of a dataset
RECURSIVE RowSize(_)
RowSize(shape) ==
    IF Len(shape) <= 1 THEN 1 ELSE shape[2] * RowSize(<<shape[1]>> \o SubSeq(shape, 3, Len(shape)))

\* "name in dataset" where a group is expected (lines 464, 591, 630): a
\* Dataset has no __contains__, so Python iterates its rows and compares each
\* with the name.  A scalar dataset cannot be iterated (TypeError), the
\* truth value of the comparison with a row of several elements is ambiguous
\* (ValueError), and otherwise no row equals a name: "" stands for False.
\* The datasets hold floats.
NameInDataset(shape) ==
    IF shape = <<>> THEN "TypeError"
    ELSE IF shape[1] > 0 /\ RowSize(shape) > 1 THEN "ValueError"
    ELSE ""

\* line 464-465 on a Dataset: the test raises, or finds no name and
\* input_latlon_group.keys() fails with AttributeError
LatlonInDataset(shape) ==
    IF NameInDataset(shape) # "" THEN NameInDataset(shape) ELSE "AttributeError"

\* lines 590-593 on a Dataset: "for name in input_data_group" takes the rows;
\* without rows the list stays empty, otherwise the test of line 591 raises
\* or input_data_group[name] fails with TypeError on a row of floats
DiscoverInDataset(shape) ==
    IF shape # <<>> /\ shape[1] = 0 THEN ""
    ELSE IF NameInDataset(shape) # "" THEN NameInDataset(shape)
    ELSE "TypeError"

\* GroupManager.create_hierarchy, the loop over path_parts from part i on:
\* [err, file, group], group being the path of the group returned.
\* "current_path not in current_group" looks current_path up relative to
\* current_group; create_group fails with ValueError on a name in use and
\* current_group[part] with KeyError on a missing one.
RECURSIVE CreateHierarchyFrom(_, _, _, _)
CreateHierarchyFrom(file, parts, i, current_group) ==
    IF i > Len(parts)
    THEN [err |-> "", file |-> file, group |-> current_group]
    ELSE LET current_path == SubSeq(parts, 1, i)
             child        == current_group \o <<parts[i]>>
         IN  IF ~Contains(file, current_group, current_path)
             THEN IF Contains(file, current_group, <<parts[i]>>)
                  THEN [err |-> "ValueError", file |-> file, group |-> current_group]
                  ELSE CreateHierarchyFrom(
                           [file EXCEPT !.groups = @ \cup {child}], parts, i + 1, child)
             ELSE IF ~Contains(file, current_group, <<parts[i]>>)
                  THEN [err |-> "KeyError", file |-> file, group |-> current_group]
                  ELSE CreateHierarchyFrom(file, parts, i + 1, child)

create_hierarchy(file, group_path) ==
    IF group_path.none \/ group_path.raw = <<"">>
    THEN [err |-> "", file |-> file, group |-> <<>>]
    ELSE CreateHierarchyFrom(file, group_path.parts, 1, <<>>)

----------------------------------------------------------------------------
(* HDF5Cropper.crop_file as a state machine *)

VARIABLES
    pc,                 \* position in crop_file
    src,                \* the input file
    src_valid,          \* whether the input path holds a readable HDF5 file
    req,                \* the arguments of crop_file
    out,                \* the contents of the file at the output path
    out_exists,         \* whether a file exists at the output path
    lat_min, lat_max,   \* the normalized latitude bounds
    lon_ranges,         \* the longitude ranges of the normalized box
    in_latlon_group,    \* _process_file: path of input_latlon_group
    in_data_group,      \* _process_file: path of input_data_group
    out_data_group,     \* _process_file: path of output_data_group
    out_latlon_group,   \* _process_file: path of output_latlon_group
    lat_indices, all_lon_indices, is_2d_grid,   \* the result of _get_indices
    data_vars,          \* _process_datasets: the list of variables to process
    var_i,              \* _process_datasets: how many of them the loop has taken
    processed_datasets, skipped_datasets,
    raised,             \* the exception in flight inside the try block, "" if none
    result,             \* "" while running, "returned", or the exception crop_file raised
    pass,               \* 1: the crop of the source; 2: the crop of that crop's output
    first               \* pass 2: the output of pass 1

cropVars == << pc, src, src_valid, req, out, out_exists, lat_min, lat_max, lon_ranges,
               in_latlon_group, in_data_group, out_data_group, out_latlon_group,
               lat_indices, all_lon_indices, is_2d_grid,
               data_vars, var_i, processed_datasets, skipped_datasets,
               raised, result, pass, first >>

\* the coordinate arrays read by _process_file (lines 469-470)
Lats == src.dsets[in_latlon_group \o <<req.lat_var>>]

Lons == src.dsets[in_latlon_group \o <<req.lon_var>>]

\* every dataset name of the model, in h5py's iteration order
AllNames == <<"lat", "lon", "v1", "v2", "vx">>

\* _process_file up to and including _process_coordinates (lines 444-483):
\* [err, file, in_data, out_data, in_latlon, out_latlon, idx]; err names the exception
\* raised, file is the output file as written so far
process_file_head(fin, fout, r, la_min, la_max, ranges) ==
    LET noidx == [lat_indices |-> <<>>, all_lon_indices |-> <<>>, is_2d_grid |-> FALSE]
        res(e, f, ind, outd, inl, outl, ix) ==
            [err |-> e, file |-> f, in_data |-> ind, out_data |-> outd,
             in_latlon |-> inl, out_latlon |-> outl, idx |-> ix]
        dg == IF r.data_group.none
              THEN [err |-> "", file |-> fout, group |-> <<>>]
              ELSE create_hierarchy(fout, r.data_group)
        ind == IF r.data_group.none THEN <<>> ELSE r.data_group.parts
        same == r.latlon_group.none \/ r.latlon_group = r.data_group
        lg == IF same THEN dg ELSE create_hierarchy(dg.file, r.latlon_group)
        inl == IF same THEN ind ELSE r.latlon_group.parts
    IN  IF dg.err # "" THEN res(dg.err, dg.file, <<>>, <<>>, <<>>, <<>>, noidx)
        ELSE IF ~r.data_group.none /\ ~Opens(fin, r.data_group)
        THEN res("KeyError", dg.file, <<>>, <<>>, <<>>, <<>>, noidx)
        ELSE IF lg.err # "" THEN res(lg.err, lg.file, <<>>, <<>>, <<>>, <<>>, noidx)
        ELSE IF ~same /\ ~Opens(fin, r.latlon_group)
        THEN res("KeyError", lg.file, <<>>, <<>>, <<>>, <<>>, noidx)
        ELSE IF HasDataset(fin, inl)
        THEN res(LatlonInDataset(fin.dsets[inl].shape), lg.file, <<>>, <<>>, <<>>, <<>>, noidx)
        ELSE IF ~Contains(fin, inl, <<r.lat_var>>) \/ ~Contains(fin, inl, <<r.lon_var>>)
        THEN res("HDF5CropperError", lg.file, <<>>, <<>>, <<>>, <<>>, noidx)
        ELSE LET la == fin.dsets[inl \o <<r.lat_var>>]
                 lo == fin.dsets[inl \o <<r.lon_var>>]
                 ix == get_indices(la, lo, la_min, la_max, ranges)
             IN  IF ix.err # ""
                 THEN res(ix.err, lg.file, <<>>, <<>>, <<>>, <<>>, noidx)
                 ELSE res("",
                          WriteDataset(
                              WriteDataset(lg.file, lg.group, r.lat_var,
                                  CropCoordinate(la, ix.lat_indices, ix.all_lon_indices,
                                                 ix.is_2d_grid, ix.lat_indices)),
                              lg.group, r.lon_var,
                              CropCoordinate(lo, ix.lat_indices, ix.all_lon_indices,
                                             ix.is_2d_grid, ix.all_lon_indices)),
                          ind, dg.group, inl, lg.group,
                          [lat_indices |-> ix.lat_indices,
                           all_lon_indices |-> ix.all_lon_indices,
                           is_2d_grid |-> ix.is_2d_grid])

\* _process_datasets, lines 588-595: the variable list, [err, vars]; the
\* loop that finds the names is outside the try block of the datasets
resolve_data_vars(fin, r, ind) ==
    IF r.data_vars_given THEN [err |-> "", vars |-> r.data_vars]
    ELSE IF HasDataset(fin, ind)
    THEN [err |-> DiscoverInDataset(fin.dsets[ind].shape), vars |-> <<>>]
    ELSE [err |-> "",
          vars |-> SelectSeq(DatasetNames(fin, ind, AllNames),
                             LAMBDA nm : nm # r.lat_var /\ nm # r.lon_var)]

\* the iteration, were a variable missing from the input not counted
process_one_dataset_Uncounted(fin, fout, ind, outd, var_name, la, lo, li, loi) ==
    IF (ind \o <<var_name>>) \notin DOMAIN fin.dsets
    THEN [file |-> fout, processed |-> 0, skipped |-> 0]
    ELSE LET c == crop_dataset(fin.dsets[ind \o <<var_name>>], la, lo, li, loi)
         IN  IF c.tag = "ok"
             THEN [file |-> WriteDataset(fout, outd, var_name, c.data),
                   processed |-> 1, skipped |-> 0]
             ELSE [file |-> fout, processed |-> 0, skipped |-> 1]

\* one iteration of the loop of _process_datasets (lines 597-616):
\* [file, processed, skipped], the last two being the increments of the
\* counters; a missing dataset, a None from _crop_dataset and any exception
\* count the variable as skipped
process_one_dataset(fin, fout, ind, outd, var_name, la, lo, li, loi) ==
    IF (ind \o <<var_name>>) \notin DOMAIN fin.dsets
    THEN [file |-> fout, processed |-> 0, skipped |-> 1]
    ELSE LET c == crop_dataset(fin.dsets[ind \o <<var_name>>], la, lo, li, loi)
         IN  IF c.tag = "ok"
             THEN [file |-> WriteDataset(fout, outd, var_name, c.data),
                   processed |-> 1, skipped |-> 0]
             ELSE [file |-> fout, processed |-> 0, skipped |-> 1]

\* crop_file, lines 406-427: validation, normalization, creation of the output file
Open ==
    /\ pc = "start"
    /\ IF ~src_valid
       THEN /\ pc' = "failed"
            /\ result' = "HDF5CropperError"
            /\ UNCHANGED << out, out_exists, lat_min, lat_max, lon_ranges >>
       ELSE \E n \in {normalize_coordinates(req.lat_min, req.lat_max,
                                              req.lon_min, req.lon_max)} :
                /\ lat_min' = n[1]
                /\ lat_max' = n[2]
                /\ lon_ranges' = lon_ranges_of(n[3], n[4])
                /\ out' = EmptyFile
                /\ out_exists' = TRUE
                /\ pc' = "opened"
                /\ UNCHANGED result
    /\ UNCHANGED << src, src_valid, req, in_latlon_group, in_data_group, out_data_group, out_latlon_group,
                    lat_indices, all_lon_indices, is_2d_grid, data_vars, var_i,
                    processed_datasets, skipped_datasets, raised, pass, first >>

\* _process_file up to the start of the loop of _process_datasets
ProcessCoordinates ==
    /\ pc = "opened"
    /\ \E h \in {process_file_head(src, out, req, lat_min, lat_max, lon_ranges)} :
        \E v \in {IF h.err = "" THEN resolve_data_vars(src, req, h.in_data)
                                ELSE [err |-> h.err, vars |-> <<>>]} :
           /\ out' = h.file
           /\ raised' = v.err
           /\ pc' = IF v.err = "" THEN "datasets" ELSE "raised"
           /\ in_latlon_group' = h.in_latlon
           /\ in_data_group' = h.in_data
           /\ out_data_group' = h.out_data
           /\ out_latlon_group' = h.out_latlon
           /\ lat_indices' = h.idx.lat_indices
           /\ all_lon_indices' = h.idx.all_lon_indices
           /\ is_2d_grid' = h.idx.is_2d_grid
           /\ data_vars' = v.vars
    /\ UNCHANGED << src, src_valid, req, out_exists, lat_min, lat_max, lon_ranges, var_i,
                    processed_datasets, skipped_datasets, result, pass, first >>

\* one iteration of the loop of _process_datasets
ProcessDataset ==
    /\ pc = "datasets"
    /\ var_i < Len(data_vars)
    /\ LET r == process_one_dataset(src, out, in_data_group, out_data_group,
                                    data_vars[var_i + 1], Lats, Lons,
                                    lat_indices, all_lon_indices)
       IN  /\ out' = r.file
           /\ processed_datasets' = processed_datasets + r.processed
           /\ skipped_datasets' = skipped_datasets + r.skipped
    /\ var_i' = var_i + 1
    /\ UNCHANGED << pc, src, src_valid, req, out_exists, lat_min, lat_max, lon_ranges,
                    in_latlon_group, in_data_group, out_data_group, out_latlon_group,
                    lat_indices, all_lon_indices, is_2d_grid, data_vars,
                    raised, result, pass, first >>

\* the end of the loop: the counts are logged, the files are closed and
\* crop_file returns the output path
FinishDatasets ==
    /\ pc = "datasets"
    /\ var_i = Len(data_vars)
    /\ pc' = "done"
    /\ result' = "returned"
    /\ UNCHANGED << src, src_valid, req, out, out_exists, lat_min, lat_max, lon_ranges,
                    in_latlon_group, in_data_group, out_data_group, out_latlon_group,
                    lat_indices, all_lon_indices, is_2d_grid, data_vars, var_i,
                    processed_datasets, skipped_datasets, raised, pass, first >>

\* the handler, were the output file left in place
HandleError_KeepsFile ==
    /\ pc = "raised"
    /\ result' = "HDF5CropperError"
    /\ pc' = "failed"
    /\ UNCHANGED << src, src_valid, req, out, out_exists, lat_min, lat_max, lon_ranges,
                    in_latlon_group, in_data_group, out_data_group, out_latlon_group,
                    lat_indices, all_lon_indices, is_2d_grid, data_vars, var_i,
                    processed_datasets, skipped_datasets, raised, pass, first >>

\* crop_file, lines 431-435: the output file is deleted and the exception
\* is re-raised as HDF5CropperError
HandleError ==
    /\ pc = "raised"
    /\ out_exists' = FALSE
    /\ out' = EmptyFile
    /\ result' = "HDF5CropperError"
    /\ pc' = "failed"
    /\ UNCHANGED << src, src_valid, req, lat_min, lat_max, lon_ranges,
                    in_latlon_group, in_data_group, out_data_group, out_latlon_group,
                    lat_indices, all_lon_indices, is_2d_grid, data_vars, var_i,
                    processed_datasets, skipped_datasets, raised, pass, first >>

\* a second call of crop_file with the same arguments, its input the output
\* of the first call and its output a new path
Recrop ==
    /\ pc = "done"
    /\ pass = 1
    /\ pass' = 2
    /\ first' = out
    /\ src' = out
    /\ out' = EmptyFile
    /\ out_exists' = FALSE
    /\ pc' = "start"
    /\ result' = ""
    /\ lat_min' = 0 /\ lat_max' = 0 /\ lon_ranges' = <<>>
    /\ in_latlon_group' = <<>> /\ in_data_group' = <<>>
    /\ out_data_group' = <<>> /\ out_latlon_group' = <<>>
    /\ lat_indices' = <<>> /\ all_lon_indices' = <<>> /\ is_2d_grid' = FALSE
    /\ data_vars' = <<>> /\ var_i' = 0
    /\ processed_datasets' = 0 /\ skipped_datasets' = 0
    /\ UNCHANGED << src_valid, req, raised >>

----------------------------------------------------------------------------
(* The inputs of crop_file *)

\* rank-1 coordinates: len(lat) + len(lon) is at most MaxCoordLen
MaxCoordLen == 4

\* rank-2 coordinates: the grid has at most MaxCells cells
MaxCells == 4

\* the length of an axis that is neither latitude nor longitude
ExtraLen == 3

LatVals1 == {0, 600}

LonVals1 == {-1750, 0, 1750, fill_value}

\* <<lat_min, lat_max>> as given: clamped below, clamped above, inverted
LatBoxes == {<<-1000, 300>>, <<300, 1000>>, <<300, -300>>}

\* <<lon_min, lon_max>> as given: across the antimeridian, plain, beyond 180,
\* the whole globe
LonBoxes == {<<1700, -1700>>, <<-300, 300>>, <<1850, 1900>>, <<-1800, 1800>>}

\* a box whose bounds are no whole number of half degrees, so that lon + 180
\* is rounded, and the longitudes on and between its bounds
NearBox == <<-1, 1>>

NearLonVals == {-1, 0, 1}

LonValsIn(lob) == IF lob = NearBox THEN NearLonVals ELSE LonVals1

\* one cell of a rank-2 grid, <<lat, lon>>
CellVals == {<<0, 1750>>, <<0, -1750>>, <<0, 0>>, <<600, 1750>>}

LonBoxes2 == {<<1700, -1700>>, <<-300, 300>>}

CellValsIn(lob) == IF lob = NearBox THEN {<<0, v>> : v \in NearLonVals} ELSE CellVals

\* an array whose element at idx is idx itself: every element is distinct,
\* so an output element names the source element it was copied from
IdArray(shape) == [shape |-> shape, at |-> [idx \in IndexSet(shape) |-> idx]]

Arr1(seq) == [shape |-> <<Len(seq)>>, at |-> [idx \in IndexSet(<<Len(seq)>>) |-> seq[idx[1] + 1]]]

ConstArray(shape, v) == [shape |-> shape, at |-> [idx \in IndexSet(shape) |-> v]]

Request(la, lo, given, names, dg, lg) ==
    [lat_min |-> la[1], lat_max |-> la[2], lon_min |-> lo[1], lon_max |-> lo[2],
     lat_var |-> "lat", lon_var |-> "lon",
     data_vars_given |-> given, data_vars |-> names,
     data_group |-> dg, latlon_group |-> lg]

\* the part of the initial state that does not depend on the inputs
InitLocals ==
    /\ pc = "start"
    /\ out = EmptyFile
    /\ lat_min = 0 /\ lat_max = 0 /\ lon_ranges = <<>>
    /\ in_latlon_group = <<>> /\ in_data_group = <<>>
    /\ out_data_group = <<>> /\ out_latlon_group = <<>>
    /\ lat_indices = <<>> /\ all_lon_indices = <<>> /\ is_2d_grid = FALSE
    /\ data_vars = <<>> /\ var_i = 0
    /\ processed_datasets = 0 /\ skipped_datasets = 0
    /\ raised = "" /\ result = ""
    /\ pass = 1 /\ first = EmptyFile

\* the variable lists given to crop_file: a missing variable before the two
\* variables of the file, or the coordinate datasets themselves
DataVarLists == {<<"vx", "v1", "v2">>, <<"lat", "lon">>}

\* rank-1 coordinates in the root group, with the variables v1 of shape
\* (len(lat), len(lon)) and v2 of shape (len(lon)); the variable list is
\* either left out or one of DataVarLists
InitRank1 ==
    /\ \E lab \in LatBoxes, lob \in LonBoxes \cup {NearBox}, given \in BOOLEAN,
          names \in DataVarLists :
         /\ req = Request(lab, lob, given,
                          IF given THEN names ELSE <<>>, GroupNone, GroupNone)
         /\ \E nlat \in 1..MaxCoordLen, nlon \in 1..MaxCoordLen :
              /\ nlat + nlon <= MaxCoordLen
              /\ \E la \in [1..nlat -> LatVals1], lo \in [1..nlon -> LonValsIn(lob)] :
                   src = [groups |-> {},
                          dsets  |-> (<<"lat">> :> Arr1(la)) @@ (<<"lon">> :> Arr1(lo))
                                     @@ (<<"v1">> :> IdArray(<<nlat, nlon>>))
                                     @@ (<<"v2">> :> IdArray(<<nlon>>))]
    /\ src_valid = TRUE
    /\ out_exists = FALSE
    /\ InitLocals

\* the shapes of the variable v1 beside a rank-2 grid of shape (r, c)
Shapes2(r, c) == {<<r, c>>, <<r, c, ExtraLen>>, <<ExtraLen, r, c>>, <<c, r>>, <<ExtraLen>>}

\* rank-2 coordinates in the root group, with the variables v1 of one of the
\* shapes above and v2 of the grid's shape
InitRank2 ==
    /\ \E lob \in LonBoxes2 \cup {NearBox} :
         /\ req = Request(<<-300, 300>>, lob, FALSE, <<>>, GroupNone, GroupNone)
         /\ \E r \in 1..MaxCells, c \in 1..MaxCells :
              /\ r * c <= MaxCells
              /\ \E cells \in [IndexSet(<<r, c>>) -> CellValsIn(lob)], shp \in Shapes2(r, c) :
                   src = [groups |-> {},
                          dsets  |-> (<<"lat">> :> [shape |-> <<r, c>>,
                                                    at |-> [x \in IndexSet(<<r, c>>) |-> cells[x][1]]])
                                     @@ (<<"lon">> :> [shape |-> <<r, c>>,
                                                       at |-> [x \in IndexSet(<<r, c>>) |-> cells[x][2]]])
                                     @@ (<<"v1">> :> IdArray(shp))
                                     @@ (<<"v2">> :> IdArray(<<r, c>>))]
    /\ src_valid = TRUE
    /\ out_exists = FALSE
    /\ InitLocals

\* the group arguments crop_file is called with
GroupArgs == {GroupNone, GroupAt(<<"">>), GroupAt(<<"", "">>), GroupAt(<<"G">>),
              GroupAt(<<"G", "H">>), GroupAt(<<"", "G", "H">>), GroupAt(<<"v1">>)}

\* the prefixes of a group path, the groups a file holding that group has
Ancestors(path) == {SubSeq(path, 1, i) : i \in 1..Len(path)}

\* the ranks of the latitude and longitude datasets
CoordRanks == {<<1, 1>>, <<2, 2>>, <<1, 2>>, <<2, 1>>, <<3, 3>>}

\* the inputs of the fatal errors: an unreadable input file, a stale file at
\* the output path, coordinate datasets that are missing or of an unsupported
\* rank, group arguments that name no group of the input or name a dataset
\* of it, an empty selection
InitFatal ==
    /\ \E home \in {<<>>, <<"G">>, <<"G", "H">>}, rk \in CoordRanks,
          present \in SUBSET {"lat", "lon"} :
         src = [groups |-> Ancestors(home),
                dsets  |-> [p \in {home \o <<nm>> : nm \in present \cup {"v1"}} |->
                              IF p = home \o <<"lat">> THEN ConstArray([k \in 1..rk[1] |-> 1], 0)
                              ELSE IF p = home \o <<"lon">> THEN ConstArray([k \in 1..rk[2] |-> 1], 0)
                              ELSE IdArray(<<1, 1>>)]]
    /\ \E lab \in {<<-300, 300>>, <<300, 1000>>}, dg \in GroupArgs, lg \in GroupArgs,
          given \in BOOLEAN :
         req = Request(lab, <<-300, 300>>, given,
                       IF given THEN <<"v2">> ELSE <<>>, dg, lg)
    /\ src_valid \in BOOLEAN
    /\ out_exists \in BOOLEAN
    /\ InitLocals

\* the state of preprocess_data (src/src/interpolation/main_new.py)
VARIABLES
    fpc,            \* position in preprocess_data
    longitude,      \* the longitude of every cell of the swath
    latitude,       \* the latitude of every cell of the swath
    data,           \* the variable as read: a value per cell and layer
    filled_data,    \* the copy of data the gap filling writes to
    total_layers,
    coord_valid,    \* the cells whose coordinates are valid
    global_valid,   \* the cells that are to be handed to the regridder
    layer,          \* the index of the layer the loop is at
    valid_points,   \* the cells handed to the regridder, in row-major order
    valid_data_layers,  \* per layer, the values handed to the regridder
    ferror          \* the exception preprocess_data raised, "" if none

fillVars == << fpc, longitude, latitude, data, filled_data, total_layers, coord_valid,
               global_valid, layer, valid_points, valid_data_layers, ferror >>

\* preprocess_data is not running
FillIdle ==
    /\ fpc = "idle"
    /\ longitude = <<>> /\ latitude = <<>> /\ data = <<>> /\ filled_data = <<>>
    /\ total_layers = 0 /\ coord_valid = {} /\ global_valid = {} /\ layer = 0
    /\ valid_points = <<>> /\ valid_data_layers = <<>> /\ ferror = ""

\* the state of batch_idw (src/src/interpolation/main_new.py)
VARIABLES
    rpc,            \* position in batch_idw
    lon_valid,      \* the longitudes of the samples
    lat_valid,      \* the latitudes of the samples
    data_valid,     \* the values of the samples, one layer
    grid_lon,       \* the longitudes of the grid nodes
    grid_lat,       \* the latitudes of the grid nodes
    max_distance,   \* the value of MAX_DISTANCE of this call
    parallel,       \* the value of PARALLEL of this call
    blocks,         \* the list of blocks: <<i_start, i_end, j_start, j_end>>
    results,        \* per block, what its job returned; <<>> while it runs
    grid_result,    \* the array result of batch_idw
    next_block,     \* how many blocks the loop over the blocks has written
    valid_count,    \* the number of nodes that hold no sentinel
    rpass,          \* 1: the first call; 2: a second call on the same samples
    prev_result,    \* in the second call, what the first call returned
    prev_distance,  \* in the second call, MAX_DISTANCE of the first call
    prev_parallel   \* in the second call, PARALLEL of the first call

regridVars == << rpc, lon_valid, lat_valid, data_valid, grid_lon, grid_lat, max_distance,
                 parallel, blocks, results, grid_result, next_block, valid_count,
                 rpass, prev_result, prev_distance,
                    prev_parallel >>

\* batch_idw is not running
RegridIdle ==
    /\ rpc = "idle"
    /\ lon_valid = <<>> /\ lat_valid = <<>> /\ data_valid = <<>>
    /\ grid_lon = <<>> /\ grid_lat = <<>> /\ max_distance = 0 /\ parallel = FALSE
    /\ blocks = <<>> /\ results = <<>> /\ grid_result = <<>> /\ next_block = 0
    /\ valid_count = 0 /\ rpass = 1 /\ prev_result = <<>> /\ prev_distance = 0
    /\ prev_parallel = FALSE

\* The state of a request served by perform_interpolation and
\* run_interpolation (src/src/api_service.py, src/src/interpolation/main_new.py)
VARIABLES
    ipc,            \* the position in perform_interpolation and run_interpolation
    run_req,        \* the request: the catalog's answers, the file read, the arguments
    original_dim,   \* line 327
    run_filled,     \* preprocess_data: filled_data
    run_gv,         \* preprocess_data: global_valid
    run_layer,      \* preprocess_data: the layer of the loop
    pre,            \* what preprocess_data has returned
    run_grid,       \* grid_lon and grid_lat
    all_results,    \* the arrays of the layers regridded so far
    run_result,     \* batch_idw: result
    run_block,      \* batch_idw: the number of blocks written; -1 outside a call
    dest,           \* the destination file
    run_ret,        \* what run_interpolation has returned
    perform         \* how perform_interpolation has ended

runVars == << ipc, run_req, original_dim, run_filled, run_gv, run_layer, pre, run_grid,
             all_results, run_result, run_block, dest, run_ret, perform >>

\* an optional argument: <<>> for None, <<v>> for the value v
Absent == <<>>

\* no destination file
NoFile == [exists |-> FALSE, longitude |-> <<>>, latitude |-> <<>>, names |-> {},
           layers |-> <<>>, original_dimension |-> 0, layers_processed |-> <<>>]

\* nothing returned by preprocess_data yet
NoPre == [err |-> "", valid_lon |-> <<>>, valid_lat |-> <<>>, valid_data_layers |-> <<>>,
          lon_min |-> 0, lon_max |-> 0, lat_min |-> 0, lat_max |-> 0,
          total_layers |-> 0, layer_min |-> 0, layer_max |-> 0]

\* no interpolation request is being served
RunIdle ==
    /\ ipc = "idle" /\ run_req = <<>> /\ original_dim = 0 /\ pre = NoPre
    /\ run_filled = <<>> /\ run_gv = {} /\ run_layer = 0
    /\ run_grid = << <<>>, <<>> >> /\ all_results = <<>> /\ dest = NoFile
    /\ run_result = <<>> /\ run_block = -1
    /\ run_ret = "" /\ perform = ""

----------------------------------------------------------------------------
(* Subset extraction: extract_hdf5_subset of src/src/read/extract_hdf5.py.

   A file is [objs]: objs maps the path of every object, the root group <<>>
   included, to [kind, attrs, data].  A path argument is the sequence of the
   parts that "/" separates in the string, empty parts included: "/g" is
   <<"", "g">> and "/" is <<"", "">>; HDF5 skips the empty parts. *)

NoAttrs == [a \in {} |-> 0]

GroupObject(attrs) == [kind |-> "group", attrs |-> attrs, data |-> 0]

DatasetObject(attrs, value) == [kind |-> "dataset", attrs |-> attrs, data |-> value]

\* a file as h5py.File(path, 'w') creates it
NewFile == [objs |-> (<<>> :> GroupObject(NoAttrs))]

\* the object a path string names
Resolve(raw) == SelectSeq(raw, LAMBDA part : part # "")

\* h5py "path in file": the empty string names nothing
InFile(file, raw) == raw # <<"">> /\ Resolve(raw) \in DOMAIN file.objs

\* the groups on the way to the object at path that the file lacks, which
\* create_group and create_dataset create
MissingParents(file, path) ==
    {SubSeq(path, 1, n) : n \in 0..(Len(path) - 1)} \ DOMAIN file.objs

\* file.create_group(raw)
create_group(file, raw) ==
    LET path == Resolve(raw)
        made == MissingParents(file, path) \cup {path}
    IN  [file EXCEPT !.objs = [q \in made |-> GroupObject(NoAttrs)] @@ file.objs]

\* file.create_dataset(raw, data = value)
create_dataset(file, raw, value) ==
    LET path == Resolve(raw)
    IN  [file EXCEPT !.objs = (path :> DatasetObject(NoAttrs, value))
                              @@ [q \in MissingParents(file, path) |-> GroupObject(NoAttrs)]
                              @@ file.objs]

\* lines 91-92 and 103-104: every attribute of the source object is set on
\* the object at the destination path
copy_attrs(file, raw, attrs) ==
    [file EXCEPT !.objs[Resolve(raw)].attrs = attrs @@ @]

\* src_obj.keys(): the names of the members of a group, in h5py's order;
\* names lists every candidate name in that order
KeysOf(file, path, names) ==
    SelectSeq(names, LAMBDA nm : (path \o <<nm>>) \in DOMAIN file.objs)

VARIABLES
    xpc,            \* the position in extract_hdf5_subset
    x_in,           \* the catalog's answer, the source file, target_path
    x_dst,          \* the contents of output_file
    x_dst_exists,   \* whether output_file exists
    x_stack,        \* the calls of copy_path that are pending: <<src_path, dst_path>>
    x_ret           \* what extract_hdf5_subset has returned: "", "True" or "False"

extractVars == << xpc, x_in, x_dst, x_dst_exists, x_stack, x_ret >>

\* no extraction is running
ExtractIdle ==
    /\ xpc = "idle" /\ x_in = <<>> /\ x_dst = NewFile /\ x_dst_exists = FALSE
    /\ x_stack = <<>> /\ x_ret = ""

----------------------------------------------------------------------------
(* Dimension analysis of one dataset: DimensionAnalyzer.find_lat_lon_dimensions
   and HDF5Cropper._crop_dataset of src/src/cropper/SpaceCropping.py, applied
   to coordinate shapes and a data shape drawn from small sets. *)

VARIABLES
    dpc,            \* "args", "found" (find_lat_lon_dimensions returned) or "cropped"
    d_lat_shape,    \* the shape of the latitude array
    d_lon_shape,    \* the shape of the longitude array
    d_data_shape,   \* the shape of the dataset
    d_dims,         \* what find_lat_lon_dimensions returned
    d_sel,          \* << lat_indices, all_lon_indices >> given to _crop_dataset
    d_crop          \* what _crop_dataset returned or raised

dimsVars == << dpc, d_lat_shape, d_lon_shape, d_data_shape, d_dims, d_sel, d_crop >>

DimsIdle ==
    /\ dpc = "idle" /\ d_lat_shape = <<>> /\ d_lon_shape = <<>> /\ d_data_shape = <<>>
    /\ d_dims = <<>> /\ d_sel = <<>> /\ d_crop = <<>>

----------------------------------------------------------------------------
(* The group set-up of one crop: HDF5Cropper._process_file, lines 444-461 of
   src/src/cropper/SpaceCropping.py, with the attributes of the groups.
   Attributes are a function from attribute names to values. *)

VARIABLES
    hpc,        \* "start", "root" (root attributes copied), "data", "done",
                \* "failed" (create_hierarchy raised) or "missing" (fin[path] raised)
    h_src,      \* the source file [groups, dsets]
    h_args,     \* [data_group, latlon_group]
    h_dst,      \* the destination file [groups, dsets]
    h_attrs,    \* the attributes of the destination's root (<<>>) and groups
    h_copies,   \* the destination groups copy_group_attributes was called on, in order
    h_created,  \* the groups created in the destination, in order
    h_out,      \* [data, latlon]: the groups create_hierarchy returned
    h_err       \* the exception raised, "" if none

hierVars == << hpc, h_src, h_args, h_dst, h_attrs, h_copies, h_created, h_out, h_err >>

HierIdle ==
    /\ hpc = "idle" /\ h_src = EmptyFile /\ h_args = <<>> /\ h_dst = EmptyFile
    /\ h_attrs = <<>> /\ h_copies = <<>> /\ h_created = <<>> /\ h_out = <<>> /\ h_err = ""

----------------------------------------------------------------------------
(* The job system of src/app.py: the request handlers that submit tasks, the
   worker process, the status and download handlers.  A task is identified
   by its task_id; the handlers run in the threads of the web server, the
   worker in a process of its own, so a step is one access to the queue or
   to the shared dictionary of statuses. *)

VARIABLES
    task_queue,     \* the queue of submitted task ids, oldest first
    task_statuses,  \* per task id its entry [status, has_result]; status "NONE": no entry
    hnd,            \* per task id the position of the handler that submits it
    wpc,            \* the worker: "idle", "got" (task taken) or "running"
    w_task,         \* the task the worker has taken, 0 if none
    submitted,      \* the task ids in the order of their task_queue.put
    taken,          \* the task ids in the order the worker took them
    resp            \* the last response of /api/status or /download

jobVars == << task_queue, task_statuses, hnd, wpc, w_task, submitted, taken, resp >>

JobsIdle ==
    /\ task_queue = <<>> /\ task_statuses = <<>> /\ hnd = <<>> /\ wpc = "off"
    /\ w_task = 0 /\ submitted = <<>> /\ taken = <<>> /\ resp = <<>>

Init ==
    /\ InitRank1 \/ InitRank2 \/ InitFatal
    /\ FillIdle /\ RegridIdle /\ RunIdle /\ ExtractIdle /\ DimsIdle /\ HierIdle /\ JobsIdle

Next ==
    \/ Open /\ UNCHANGED << fillVars, regridVars, runVars, extractVars, dimsVars, hierVars, jobVars >>
    \/ ProcessCoordinates /\ UNCHANGED << fillVars, regridVars, runVars, extractVars, dimsVars, hierVars, jobVars >>
    \/ ProcessDataset /\ UNCHANGED << fillVars, regridVars, runVars, extractVars, dimsVars, hierVars, jobVars >>
    \/ FinishDatasets /\ UNCHANGED << fillVars, regridVars, runVars, extractVars, dimsVars, hierVars, jobVars >>
    \/ HandleError /\ UNCHANGED << fillVars, regridVars, runVars, extractVars, dimsVars, hierVars, jobVars >>
    \/ Recrop /\ UNCHANGED << fillVars, regridVars, runVars, extractVars, dimsVars, hierVars, jobVars >>

vars == << cropVars, fillVars, regridVars, runVars, extractVars, dimsVars, hierVars,
          jobVars >>

Spec == Init /\ [][Next]_vars

----------------------------------------------------------------------------
(* Gap filling: preprocess_data of src/src/interpolation/main_new.py.

   Coordinates are in quarter degrees (lattice units), so that the distances
   the code compares are decided by integer arithmetic on squared distances.
   A float value is a pair <<n, d>>: the rational n/d in lowest terms when
   d > 0, NaN when d = 0.  The rounding of float32 is not modelled. *)

\* line 19; -9999.9 exactly
CUSTOM_MISSING == <<-99999, 10>>

NaN == <<0, 0>>

\* line 20
MAX_NEIGHBORS == 10

\* line 21
MIN_NEIGHBORS == 3

\* line 23: 0.5 degrees, in quarter degrees
MAX_DISTANCE == 2

\* 180 and 90 degrees, in quarter degrees (lines 149-150)
LonLimit == 720

LatLimit == 360

isnan(v) == v[2] = 0

RECURSIVE GCD(_, _)
GCD(a, b) == IF b = 0 THEN a ELSE GCD(b, a % b)

Abs(a) == IF a < 0 THEN -a ELSE a

\* the float n/d, d > 0
Rat(n, d) == LET g == GCD(Abs(n), d) IN << n \div g, d \div g >>

RECURSIVE SumOver(_, _)
SumOver(S, f) ==
    IF S = {} THEN 0
    ELSE LET x == CHOOSE y \in S : TRUE IN f[x] + SumOver(S \ {x}, f)

RECURSIVE ProductOver(_, _)
ProductOver(S, f) ==
    IF S = {} THEN 1
    ELSE LET x == CHOOSE y \in S : TRUE IN f[x] * ProductOver(S \ {x}, f)

\* the cells of a swath of the given shape, and their row-major order
Cells(shape) == IndexSet(shape)

RowMajorBefore(a, b) == a[1] < b[1] \/ (a[1] = b[1] /\ a[2] < b[2])

RECURSIVE RowMajor(_)
RowMajor(S) ==
    IF S = {} THEN <<>>
    ELSE LET x == CHOOSE y \in S : \A z \in S \ {y} : RowMajorBefore(y, z)
         IN  <<x>> \o RowMajor(S \ {x})

\* data[:, :, l] of an array of shape (rows, cols, layers)
LayerOf(arr, l) == [c \in Cells(<<arr.shape[1], arr.shape[2]>>) |-> arr.at[<<c[1], c[2], l>>]]

\* lines 149-151
CoordValid(lon, lat) ==
    {c \in DOMAIN lon : /\ lon[c] >= -LonLimit /\ lon[c] <= LonLimit
                        /\ lat[c] >= -LatLimit /\ lat[c] <= LatLimit}

\* the test of a missing value, were every negative value taken as missing
IsMissing_Negative(v) == v = CUSTOM_MISSING \/ isnan(v) \/ v[1] < 0

\* line 158: the test of a missing value
IsMissing(v) == v = CUSTOM_MISSING \/ isnan(v)

\* lines 158-159
MissingMask(data_layer, cv) == {c \in cv : IsMissing(data_layer[c])}

\* the squared distance of two cells
DistSq(lon, lat, a, b) ==
    (lon[a] - lon[b]) * (lon[a] - lon[b]) + (lat[a] - lat[b]) * (lat[a] - lat[b])

\* cKDTree.query(point, k, distance_upper_bound) over the valid samples V
\* (lines 167-169): the k nearest of those closer than the bound
TreeQuery(lon, lat, V, m, k) ==
    LET within == {v \in V : DistSq(lon, lat, m, v) < MAX_DISTANCE * MAX_DISTANCE}
    IN  IF Cardinality(within) <= k THEN within
        ELSE CHOOSE S \in SUBSET within :
               /\ Cardinality(S) = k
               /\ \A a \in S, b \in within \ S :
                    DistSq(lon, lat, m, a) <= DistSq(lon, lat, m, b)

\* lines 178-181 with POWER = 2: the weights 1 / d^2, normalized, applied to
\* the neighbours' values; a neighbour at distance 0 has an infinite weight,
\* the normalization divides infinity by infinity and the sum is NaN, as is
\* a sum with a neighbour whose value is NaN
WeightedValue(lon, lat, data_layer, nb, m) ==
    IF \E v \in nb : DistSq(lon, lat, m, v) = 0 \/ isnan(data_layer[v]) THEN NaN
    ELSE LET dsq  == [v \in nb |-> DistSq(lon, lat, m, v)]
             P    == ProductOver(nb, dsq)
             D    == ProductOver(nb, [v \in nb |-> data_layer[v][2]])
             num  == SumOver(nb, [v \in nb |->
                        data_layer[v][1] * (D \div data_layer[v][2]) * (P \div dsq[v])])
             den  == D * SumOver(nb, [v \in nb |-> P \div dsq[v]])
         IN  Rat(num, den)

\* lines 171-181: the value computed for the missing cell m
InterpolatedValue(lon, lat, data_layer, V, m) ==
    LET k  == Min(MAX_NEIGHBORS, Cardinality(V))
        nb == TreeQuery(lon, lat, V, m, k)
    IN  IF k = 1
        THEN IF nb # {} THEN data_layer[CHOOSE v \in nb : TRUE] ELSE CUSTOM_MISSING
        ELSE IF Cardinality(nb) >= MIN_NEIGHBORS
             THEN WeightedValue(lon, lat, data_layer, nb, m)
             ELSE CUSTOM_MISSING

\* line 185: global_valid &= ~(missing_mask & (interpolated_values == CUSTOM_MISSING)).
\* missing_mask has the shape of the swath and the comparison has one entry
\* per missing cell, so numpy broadcasts the comparison along the columns:
\* entry j is applied to column j when there are as many missing cells as
\* columns, the only entry is applied everywhere when one cell is missing,
\* and every other count raises ValueError
UpdateGlobalValid(gv, shape, mm, interpolated_values) ==
    LET n      == Len(interpolated_values)
        failed == [i \in 1..n |-> interpolated_values[i] = CUSTOM_MISSING]
    IN  IF n = shape[2]
        THEN [err |-> "", global_valid |-> {c \in gv : ~(c \in mm /\ failed[c[2] + 1])}]
        ELSE IF n = 1
        THEN [err |-> "", global_valid |-> {c \in gv : ~(c \in mm /\ failed[1])}]
        ELSE [err |-> "ValueError", global_valid |-> gv]

\* lines 157-185: one iteration of the loop over the layers
process_layer(lon, lat, filled, l, cv, gv) ==
    LET data_layer   == LayerOf(filled, l)
        missing_mask == MissingMask(data_layer, cv)
        V            == cv \ missing_mask
        missing      == RowMajor(missing_mask)
        interpolated_values ==
            [i \in 1..Len(missing) |-> InterpolatedValue(lon, lat, data_layer, V, missing[i])]
        upd == UpdateGlobalValid(gv, <<filled.shape[1], filled.shape[2]>>,
                                 missing_mask, interpolated_values)
        position(c) == CHOOSE i \in 1..Len(missing) : missing[i] = c
    IN  IF missing_mask = {} \/ Cardinality(V) < MIN_NEIGHBORS
        THEN [err |-> "", filled_data |-> filled, global_valid |-> gv]
        ELSE [err |-> upd.err,
              filled_data |->
                 [filled EXCEPT !.at =
                    [x \in DOMAIN filled.at |->
                       IF x[3] = l /\ <<x[1], x[2]>> \in missing_mask
                       THEN interpolated_values[position(<<x[1], x[2]>>)]
                       ELSE filled.at[x]]],
              global_valid |-> upd.global_valid]

\* lines 130-153: the copy of the data and the validity of the coordinates
\* (layer_min and layer_max left out by the caller: every layer is kept)
StartPreprocess ==
    /\ fpc = "start"
    /\ filled_data' = data
    /\ total_layers' = data.shape[3]
    /\ coord_valid' = CoordValid(longitude, latitude)
    /\ global_valid' = CoordValid(longitude, latitude)
    /\ layer' = 0
    /\ fpc' = "layers"
    /\ UNCHANGED << longitude, latitude, data, valid_points, valid_data_layers, ferror >>

\* lines 156-185: the body of the loop for the layer at hand
ProcessLayer ==
    /\ fpc = "layers"
    /\ layer < total_layers
    /\ LET r == process_layer(longitude, latitude, filled_data, layer, coord_valid, global_valid)
       IN  IF r.err # ""
           THEN /\ ferror' = r.err
                /\ fpc' = "failed"
                /\ UNCHANGED << filled_data, global_valid, layer >>
           ELSE /\ filled_data' = r.filled_data
                /\ global_valid' = r.global_valid
                /\ layer' = layer + 1
                /\ UNCHANGED << fpc, ferror >>
    /\ UNCHANGED << longitude, latitude, data, total_layers, coord_valid,
                    valid_points, valid_data_layers >>

\* lines 187-211 without a box given by the caller: the globally valid
\* points and their values in every layer are returned
ExtractValid ==
    /\ fpc = "layers"
    /\ layer = total_layers
    /\ IF global_valid = {}
       THEN /\ ferror' = "ValueError"
            /\ fpc' = "failed"
            /\ UNCHANGED << valid_points, valid_data_layers >>
       ELSE /\ valid_points' = RowMajor(global_valid)
            /\ valid_data_layers' =
                 [l \in 1..total_layers |->
                    [i \in 1..Cardinality(global_valid) |->
                       LayerOf(filled_data, l - 1)[RowMajor(global_valid)[i]]]]
            /\ fpc' = "done"
            /\ UNCHANGED ferror
    /\ UNCHANGED << longitude, latitude, data, filled_data, total_layers, coord_valid,
                    global_valid, layer >>

----------------------------------------------------------------------------
(* The inputs of preprocess_data *)

\* crop_file is not running
CropIdle ==
    /\ src = EmptyFile /\ src_valid = FALSE /\ out_exists = FALSE
    /\ req = Request(<<0, 0>>, <<0, 0>>, FALSE, <<>>, GroupNone, GroupNone)
    /\ InitLocals

\* the shape of the swath: rows and columns
SwathShape == <<3, 2>>

\* the numbers of layers of the variable
LayerCounts == {1, 2}

\* a layer has at most MaxMissing missing cells, or is missing as a whole
MaxMissing == 3

\* the arrangements of the cells, as <<longitude, latitude>> of the cell at
\* row c[1] and column c[2], in quarter degrees:
\*   "compact"     neighbouring cells are 0.25 degrees apart
\*   "sparse"      neighbouring cells are 0.5 degrees apart: none within MAX_DISTANCE
\*   "rows_apart"  the rows are 0.5 degrees apart: one cell within MAX_DISTANCE
\*   "coincident"  the first two cells share their coordinates
\*   "off_range"   the first cell has a longitude above 180 degrees
Layouts == {"compact", "sparse", "rows_apart", "coincident", "off_range"}

CellPosition(layout, c) ==
    CASE layout = "compact"    -> << c[2], c[1] >>
      [] layout = "sparse"     -> << 2 * c[2], 2 * c[1] >>
      [] layout = "rows_apart" -> << c[2], 2 * c[1] >>
      [] layout = "coincident" -> IF c = <<0, 1>> THEN <<0, 0>> ELSE << c[2], c[1] >>
      [] layout = "off_range"  -> IF c = <<0, 0>> THEN << LonLimit + 1, 0 >> ELSE << c[2], c[1] >>

\* the value of a cell that is not missing: different in every cell and layer
ValueOf(c, l) == << 2 * (c[1] * SwathShape[2] + c[2]) - 3 + 20 * l, 1 >>

\* a missing cell holds the sentinel or, in every other cell, NaN
MissingMarker(c) == IF (c[1] + c[2]) % 2 = 1 THEN NaN ELSE CUSTOM_MISSING

\* the sets of missing cells of a layer
MissingSets ==
    {M \in SUBSET Cells(SwathShape) : Cardinality(M) <= MaxMissing \/ M = Cells(SwathShape)}

InitFill ==
    /\ CropIdle
    /\ RegridIdle
    /\ RunIdle
    /\ ExtractIdle /\ DimsIdle /\ HierIdle /\ JobsIdle
    /\ \E layout \in Layouts :
         /\ longitude = [c \in Cells(SwathShape) |-> CellPosition(layout, c)[1]]
         /\ latitude  = [c \in Cells(SwathShape) |-> CellPosition(layout, c)[2]]
    /\ \E n \in LayerCounts : \E missing \in [0..(n - 1) -> MissingSets] :
         data = [shape |-> SwathShape \o <<n>>,
                 at    |-> [x \in IndexSet(SwathShape \o <<n>>) |->
                              IF <<x[1], x[2]>> \in missing[x[3]]
                              THEN MissingMarker(<<x[1], x[2]>>)
                              ELSE ValueOf(<<x[1], x[2]>>, x[3])]]
    /\ fpc = "start"
    /\ filled_data = <<>> /\ total_layers = 0 /\ coord_valid = {} /\ global_valid = {}
    /\ layer = 0 /\ valid_points = <<>> /\ valid_data_layers = <<>> /\ ferror = ""

NextFill ==
    \/ StartPreprocess /\ UNCHANGED << cropVars, regridVars, runVars, extractVars, dimsVars, hierVars, jobVars >>
    \/ ProcessLayer /\ UNCHANGED << cropVars, regridVars, runVars, extractVars, dimsVars, hierVars, jobVars >>
    \/ ExtractValid /\ UNCHANGED << cropVars, regridVars, runVars, extractVars, dimsVars, hierVars, jobVars >>

SpecFill == InitFill /\ [][NextFill]_vars

----------------------------------------------------------------------------
(* Regridding: idw_interpolation, process_block and batch_idw of
   src/src/interpolation/main_new.py.

   Coordinates are in quarter degrees as above.  MAX_DISTANCE is an argument
   D of the operators, so that two calls with different values of the
   constant can be compared; the samples are the sequences lon_valid,
   lat_valid and data_valid, and a subset of them is the set of its indices. *)

\* line 24
BLOCK_SIZE == 128

\* cKDTree.query(point, k, distance_upper_bound = D) over the samples V
\* (line 226): the k nearest of those closer than D
TreeQueryWithin(lon, lat, V, m, k, D) ==
    LET within == {v \in V : DistSq(lon, lat, m, v) < D * D}
    IN  IF Cardinality(within) <= k THEN within
        ELSE CHOOSE S \in SUBSET within :
               /\ Cardinality(S) = k
               /\ \A a \in S, b \in within \ S :
                    DistSq(lon, lat, m, a) <= DistSq(lon, lat, m, b)

\* the same, were a node filled only with exactly MIN_NEIGHBORS neighbours
IdwAt_ExactlyMin(lon_v, lat_v, data_v, R, q, D) ==
    LET lonf == [i \in {0} \cup R |-> IF i = 0 THEN q[1] ELSE lon_v[i]]
        latf == [i \in {0} \cup R |-> IF i = 0 THEN q[2] ELSE lat_v[i]]
        k    == Min(MAX_NEIGHBORS, Cardinality(R))
        nb   == TreeQueryWithin(lonf, latf, R, 0, k, D)
    IN  IF Cardinality(R) < MIN_NEIGHBORS THEN CUSTOM_MISSING
        ELSE IF Cardinality(nb) = MIN_NEIGHBORS
             THEN WeightedValue(lonf, latf, data_v, nb, 0)
             ELSE CUSTOM_MISSING

\* idw_interpolation, lines 222-238, for one query point q = <<lon, lat>>
\* and the samples of index set R
IdwAt(lon_v, lat_v, data_v, R, q, D) ==
    LET lonf == [i \in {0} \cup R |-> IF i = 0 THEN q[1] ELSE lon_v[i]]
        latf == [i \in {0} \cup R |-> IF i = 0 THEN q[2] ELSE lat_v[i]]
        k    == Min(MAX_NEIGHBORS, Cardinality(R))
        nb   == TreeQueryWithin(lonf, latf, R, 0, k, D)
    IN  IF Cardinality(R) < MIN_NEIGHBORS THEN CUSTOM_MISSING
        ELSE IF k = 1
        THEN IF nb # {} THEN data_v[CHOOSE v \in nb : TRUE] ELSE CUSTOM_MISSING
        ELSE IF Cardinality(nb) >= MIN_NEIGHBORS
             THEN WeightedValue(lonf, latf, data_v, nb, 0)
             ELSE CUSTOM_MISSING

\* idw_interpolation: one value per query point
idw_interpolation(lon_v, lat_v, data_v, R, query_points, D) ==
    [i \in 1..Len(query_points) |-> IdwAt(lon_v, lat_v, data_v, R, query_points[i], D)]

SeqMin(s) == CHOOSE x \in SeqToSet(s) : \A y \in SeqToSet(s) : x <= y

SeqMax(s) == CHOOSE x \in SeqToSet(s) : \A y \in SeqToSet(s) : x >= y

\* process_block, were the candidates the points inside the bounding box of
\* the block itself, not expanded
process_block_NoMargin(lon_v, lat_v, data_v, g_lon, g_lat, b, D) ==
    LET lon_block    == SubSeq(g_lon, b[3] + 1, b[4])
        lat_block    == SubSeq(g_lat, b[1] + 1, b[2])
        block_shape  == << b[2] - b[1], b[4] - b[3] >>
        query_points == [n \in 1..(block_shape[1] * block_shape[2]) |->
                           << lon_block[((n - 1) % block_shape[2]) + 1],
                              lat_block[((n - 1) \div block_shape[2]) + 1] >>]
        in_range     == {i \in 1..Len(lon_v) :
                           /\ lon_v[i] >= SeqMin(lon_block)
                           /\ lon_v[i] <= SeqMax(lon_block)
                           /\ lat_v[i] >= SeqMin(lat_block)
                           /\ lat_v[i] <= SeqMax(lat_block)}
        result_flat  == idw_interpolation(lon_v, lat_v, data_v, in_range, query_points, D)
    IN  [bounds |-> b,
         data   |-> IF Cardinality(in_range) < MIN_NEIGHBORS
                    THEN ConstArray(block_shape, CUSTOM_MISSING)
                    ELSE [shape |-> block_shape,
                          at    |-> [x \in IndexSet(block_shape) |->
                                       result_flat[x[1] * block_shape[2] + x[2] + 1]]]]

\* process_block, lines 243-257, for the block b = <<i_start, i_end, j_start, j_end>>
process_block(lon_v, lat_v, data_v, g_lon, g_lat, b, D) ==
    LET lon_block    == SubSeq(g_lon, b[3] + 1, b[4])
        lat_block    == SubSeq(g_lat, b[1] + 1, b[2])
        block_shape  == << b[2] - b[1], b[4] - b[3] >>
        \* np.meshgrid and flatten: the rows are latitudes, row-major
        query_points == [n \in 1..(block_shape[1] * block_shape[2]) |->
                           << lon_block[((n - 1) % block_shape[2]) + 1],
                              lat_block[((n - 1) \div block_shape[2]) + 1] >>]
        in_range     == {i \in 1..Len(lon_v) :
                           /\ lon_v[i] >= SeqMin(lon_block) - D
                           /\ lon_v[i] <= SeqMax(lon_block) + D
                           /\ lat_v[i] >= SeqMin(lat_block) - D
                           /\ lat_v[i] <= SeqMax(lat_block) + D}
        result_flat  == idw_interpolation(lon_v, lat_v, data_v, in_range, query_points, D)
    IN  [bounds |-> b,
         data   |-> IF Cardinality(in_range) < MIN_NEIGHBORS
                    THEN ConstArray(block_shape, CUSTOM_MISSING)
                    ELSE [shape |-> block_shape,
                          at    |-> [x \in IndexSet(block_shape) |->
                                       result_flat[x[1] * block_shape[2] + x[2] + 1]]]]

\* the blocks, were only the full blocks of BLOCK_SIZE nodes built
MakeBlocks_FullBlocksOnly(n_lat, n_lon) ==
    LET rows == n_lat \div BLOCK_SIZE
        cols == n_lon \div BLOCK_SIZE
    IN  [t \in 1..(rows * cols) |->
           LET i == ((t - 1) \div cols) * BLOCK_SIZE
               j == ((t - 1) % cols) * BLOCK_SIZE
           IN  << i, i + BLOCK_SIZE, j, j + BLOCK_SIZE >>]

\* batch_idw, lines 263-268: the blocks in the order of the two loops
MakeBlocks(n_lat, n_lon) ==
    LET rows == (n_lat + BLOCK_SIZE - 1) \div BLOCK_SIZE
        cols == (n_lon + BLOCK_SIZE - 1) \div BLOCK_SIZE
    IN  [t \in 1..(rows * cols) |->
           LET i == ((t - 1) \div cols) * BLOCK_SIZE
               j == ((t - 1) % cols) * BLOCK_SIZE
           IN  << i, Min(i + BLOCK_SIZE, n_lat), j, Min(j + BLOCK_SIZE, n_lon) >>]

\* result[i_s:i_e, j_s:j_e] = block_result (lines 274 and 278)
WriteBlock(res, br) ==
    [res EXCEPT !.at =
        [c \in DOMAIN res.at |->
           IF /\ c[1] >= br.bounds[1] /\ c[1] < br.bounds[2]
              /\ c[2] >= br.bounds[3] /\ c[2] < br.bounds[4]
           THEN br.data.at[<< c[1] - br.bounds[1], c[2] - br.bounds[3] >>]
           ELSE res.at[c]]]

\* line 280: np.sum(result != CUSTOM_MISSING)
ValidCount(res) == Cardinality({c \in DOMAIN res.at : res.at[c] # CUSTOM_MISSING})

\* batch_idw, lines 263-271: the blocks, the array of sentinels and the
\* choice between the worker pool and the loop
BuildBlocks ==
    /\ rpc = "start"
    /\ blocks' = MakeBlocks(Len(grid_lat), Len(grid_lon))
    /\ results' = [t \in 1..Len(MakeBlocks(Len(grid_lat), Len(grid_lon))) |-> <<>>]
    /\ grid_result' = ConstArray(<< Len(grid_lat), Len(grid_lon) >>, CUSTOM_MISSING)
    /\ next_block' = 0
    /\ rpc' = IF parallel /\ Len(MakeBlocks(Len(grid_lat), Len(grid_lon))) > 1
              THEN "parallel" ELSE "sequential"
    /\ UNCHANGED << lon_valid, lat_valid, data_valid, grid_lon, grid_lat, max_distance,
                    parallel, valid_count, rpass, prev_result, prev_distance,
                    prev_parallel >>

\* line 272: a worker of the pool finishes the job of a block; the jobs end
\* in any order
WorkerFinish ==
    /\ rpc = "parallel"
    /\ \E t \in 1..Len(blocks) :
         /\ results[t] = <<>>
         /\ results' = [results EXCEPT ![t] =
                          process_block(lon_valid, lat_valid, data_valid,
                                        grid_lon, grid_lat, blocks[t], max_distance)]
    /\ UNCHANGED << rpc, lon_valid, lat_valid, data_valid, grid_lon, grid_lat, max_distance,
                    parallel, blocks, grid_result, next_block, valid_count,
                    rpass, prev_result, prev_distance,
                    prev_parallel >>

\* the same, were the first result of the list left out
CollectBlock_SkipsFirst ==
    /\ rpc = "parallel"
    /\ \A t \in 1..Len(blocks) : results[t] # <<>>
    /\ next_block < Len(blocks)
    /\ grid_result' = IF next_block = 0 THEN grid_result
                      ELSE WriteBlock(grid_result, results[next_block + 1])
    /\ next_block' = next_block + 1
    /\ UNCHANGED << rpc, lon_valid, lat_valid, data_valid, grid_lon, grid_lat, max_distance,
                    parallel, blocks, results, valid_count, rpass, prev_result, prev_distance,
                    prev_parallel >>

\* lines 273-274: Parallel has returned the list of the results, in the
\* order of the blocks; the loop writes the next one
CollectBlock ==
    /\ rpc = "parallel"
    /\ \A t \in 1..Len(blocks) : results[t] # <<>>
    /\ next_block < Len(blocks)
    /\ grid_result' = WriteBlock(grid_result, results[next_block + 1])
    /\ next_block' = next_block + 1
    /\ UNCHANGED << rpc, lon_valid, lat_valid, data_valid, grid_lon, grid_lat, max_distance,
                    parallel, blocks, results, valid_count, rpass, prev_result, prev_distance,
                    prev_parallel >>

\* lines 276-278: the sequential loop processes and writes the next block
SequentialBlock ==
    /\ rpc = "sequential"
    /\ next_block < Len(blocks)
    /\ LET br == process_block(lon_valid, lat_valid, data_valid,
                               grid_lon, grid_lat, blocks[next_block + 1], max_distance)
       IN  /\ results' = [results EXCEPT ![next_block + 1] = br]
           /\ grid_result' = WriteBlock(grid_result, br)
    /\ next_block' = next_block + 1
    /\ UNCHANGED << rpc, lon_valid, lat_valid, data_valid, grid_lon, grid_lat, max_distance,
                    parallel, blocks, valid_count, rpass, prev_result, prev_distance,
                    prev_parallel >>

\* lines 280-283: the count of the filled nodes, and the return
FinishLayer ==
    /\ rpc \in {"parallel", "sequential"}
    /\ next_block = Len(blocks)
    /\ valid_count' = ValidCount(grid_result)
    /\ rpc' = "done"
    /\ UNCHANGED << lon_valid, lat_valid, data_valid, grid_lon, grid_lat, max_distance,
                    parallel, blocks, results, grid_result, next_block,
                    rpass, prev_result, prev_distance,
                    prev_parallel >>

\* the values of MAX_DISTANCE that are compared, in quarter degrees
Distances == {1, 2, 3}

\* a second call of batch_idw on the same samples and grid, by the pool or by
\* the loop, with a MAX_DISTANCE that is not smaller
SecondCall ==
    /\ rpc = "done"
    /\ rpass = 1
    /\ rpass' = 2
    /\ prev_result' = grid_result
    /\ prev_distance' = max_distance
    /\ prev_parallel' = parallel
    /\ \E d \in Distances : d >= max_distance /\ max_distance' = d
    /\ parallel' \in BOOLEAN
    /\ rpc' = "start"
    /\ blocks' = <<>> /\ results' = <<>> /\ grid_result' = <<>>
    /\ next_block' = 0 /\ valid_count' = 0
    /\ UNCHANGED << lon_valid, lat_valid, data_valid, grid_lon, grid_lat >>

----------------------------------------------------------------------------
(* The inputs of batch_idw *)

\* the grid has at most MaxGridLen nodes along each axis
MaxGridLen == 129

\* the shapes <<n_lat, n_lon>> of the grid: less than a block, one full
\* block along an axis, a full and a partial block along either axis, and
\* along both
GridShapes ==
    {<<1, 1>>, <<1, 2>>, <<2, 1>>, <<2, 2>>, <<BLOCK_SIZE, 1>>, <<2, MaxGridLen>>,
     <<MaxGridLen, 1>>, <<MaxGridLen, MaxGridLen>>}

\* at most MaxPoints samples
MaxPoints == 4

\* the grid nodes are half a degree apart; an axis of less than a block
\* starts at 0 degrees, a longer one so that node BLOCK_SIZE - 2 is at 0
\* degrees and the samples lie around the end of its first block
GridAxis(n) == [i \in 1..n |-> 2 * (i - 1) - (IF n >= BLOCK_SIZE THEN 2 * (BLOCK_SIZE - 2) ELSE 0)]

\* the positions <<lon, lat>> a sample can have; the fifth is a grid node
Candidates == << <<1, 0>>, <<0, 1>>, <<1, 1>>, <<3, 1>>, <<2, 2>>, <<3, 3>> >>

\* the value of the sample at candidate position i
SampleValue(i) == << 3 * i - 7, 1 >>

\* the samples and the MAX_DISTANCE a grid of a block or more of rows is
\* run with
LongGridSamples == {2, 4, 5, 6}

LongGridDistance == CHOOSE d \in Distances : \A e \in Distances : e <= d

InitRegrid ==
    /\ CropIdle
    /\ FillIdle
    /\ RunIdle
    /\ ExtractIdle /\ DimsIdle /\ HierIdle /\ JobsIdle
    /\ \E S \in SUBSET (1..Len(Candidates)) :
         /\ Cardinality(S) <= MaxPoints
         /\ lon_valid  = [n \in 1..Cardinality(S) |-> Candidates[SortedSeq(S)[n]][1]]
         /\ lat_valid  = [n \in 1..Cardinality(S) |-> Candidates[SortedSeq(S)[n]][2]]
         /\ data_valid = [n \in 1..Cardinality(S) |-> SampleValue(SortedSeq(S)[n])]
         /\ \E shape \in GridShapes, d \in Distances :
              /\ grid_lat = GridAxis(shape[1])
              /\ grid_lon = GridAxis(shape[2])
              /\ max_distance = d
              /\ shape[1] >= BLOCK_SIZE => (S = LongGridSamples /\ d = LongGridDistance)
    /\ parallel \in BOOLEAN
    /\ rpc = "start"
    /\ blocks = <<>> /\ results = <<>> /\ grid_result = <<>> /\ next_block = 0
    /\ valid_count = 0 /\ rpass = 1 /\ prev_result = <<>> /\ prev_distance = 0
    /\ prev_parallel = FALSE

NextRegrid ==
    \/ BuildBlocks /\ UNCHANGED << cropVars, fillVars, runVars, extractVars, dimsVars, hierVars, jobVars >>
    \/ WorkerFinish /\ UNCHANGED << cropVars, fillVars, runVars, extractVars, dimsVars, hierVars, jobVars >>
    \/ CollectBlock /\ UNCHANGED << cropVars, fillVars, runVars, extractVars, dimsVars, hierVars, jobVars >>
    \/ SequentialBlock /\ UNCHANGED << cropVars, fillVars, runVars, extractVars, dimsVars, hierVars, jobVars >>
    \/ FinishLayer /\ UNCHANGED << cropVars, fillVars, runVars, extractVars, dimsVars, hierVars, jobVars >>
    \/ SecondCall /\ UNCHANGED << cropVars, fillVars, runVars, extractVars, dimsVars, hierVars, jobVars >>

SpecRegrid == InitRegrid /\ [][NextRegrid]_vars

----------------------------------------------------------------------------
(* An interpolation request: perform_interpolation of src/src/api_service.py
   and run_interpolation, preprocess_data, create_interpolation_grid and
   save_to_hdf5 of src/src/interpolation/main_new.py.

   Coordinates and the resolution are in quarter degrees.  An optional
   argument is <<>> for None and <<v>> for the value v. *)

\* a[:, :, lo:hi + 1] of an array of shape (rows, cols, layers)
SliceLayers(arr, lo, hi) ==
    [shape |-> << arr.shape[1], arr.shape[2], hi - lo + 1 >>,
     at    |-> [x \in IndexSet(<< arr.shape[1], arr.shape[2], hi - lo + 1 >>) |->
                  arr.at[<< x[1], x[2], x[3] + lo >>]]]

\* preprocess_data, lines 131-146: the range of the layers that are kept
LayerRange(n, layer_min_arg, layer_max_arg) ==
    IF n > 1
    THEN LET lo == IF layer_min_arg # Absent THEN Max(0, Min(layer_min_arg[1], n - 1)) ELSE 0
             hi == IF layer_max_arg # Absent THEN Max(lo, Min(layer_max_arg[1], n - 1)) ELSE n - 1
         IN  [layer_min |-> lo, layer_max |-> hi]
    ELSE [layer_min |-> 0, layer_max |-> n - 1]

\* the smallest and the largest value of a function over the cells S
MinOver(f, S) == CHOOSE x \in {f[c] : c \in S} : \A c \in S : x <= f[c]

MaxOver(f, S) == CHOOSE x \in {f[c] : c \in S} : \A c \in S : x >= f[c]

\* preprocess_data, lines 188-211: the valid points, their values in every
\* layer, the extent, the box of the caller and what is returned; rng is the
\* range of the layers that were kept
extract_valid(lon, lat, filled, gv, lon_min_arg, lon_max_arg, lat_min_arg, lat_max_arg, rng) ==
    LET lo_lon  == IF lon_min_arg # Absent THEN Max(lon_min_arg[1], -LonLimit) ELSE MinOver(lon, gv)
        hi_lon  == IF lon_max_arg # Absent THEN Min(lon_max_arg[1], LonLimit) ELSE MaxOver(lon, gv)
        lo_lat  == IF lat_min_arg # Absent THEN Max(lat_min_arg[1], -LatLimit) ELSE MinOver(lat, gv)
        hi_lat  == IF lat_max_arg # Absent THEN Min(lat_max_arg[1], LatLimit) ELSE MaxOver(lat, gv)
        final   == {c \in gv : /\ lon[c] >= lo_lon /\ lon[c] <= hi_lon
                               /\ lat[c] >= lo_lat /\ lat[c] <= hi_lat}
        order   == RowMajor(final)
    IN  IF gv = {} THEN [rng EXCEPT !.err = "ValueError"]
        ELSE IF final = {} THEN [rng EXCEPT !.err = "ValueError"]
        ELSE [err |-> "",
              valid_lon |-> [i \in 1..Len(order) |-> lon[order[i]]],
              valid_lat |-> [i \in 1..Len(order) |-> lat[order[i]]],
              valid_data_layers |->
                 [l \in 1..filled.shape[3] |->
                    [i \in 1..Len(order) |-> LayerOf(filled, l - 1)[order[i]]]],
              lon_min |-> lo_lon, lon_max |-> hi_lon, lat_min |-> lo_lat, lat_max |-> hi_lat,
              total_layers |-> rng.total_layers,
              layer_min |-> rng.layer_min, layer_max |-> rng.layer_max]

\* np.arange(lo, hi, step) of line 215 and line 216
Arange(lo, hi, step) ==
    IF hi <= lo THEN <<>>
    ELSE [i \in 1..((hi - lo + step - 1) \div step) |-> lo + (i - 1) * step]

\* create_interpolation_grid, lines 214-218
create_interpolation_grid(lo_lon, hi_lon, lo_lat, hi_lat, resolution) ==
    << Arange(lo_lon, hi_lon, resolution), Arange(lo_lat, hi_lat, resolution) >>

\* `x or d` of line 303 for an optional integer x: d when x is None or 0
OrElse(x, d) == IF x = Absent \/ x[1] = 0 THEN d ELSE x[1]

\* save_to_hdf5, lines 286-303.  The file is opened for writing, which
\* creates it, and receives the group and the two coordinate datasets; the
\* dataset of the variable is then created in the same group, which raises
\* ValueError when its name is the name of a coordinate dataset, and the
\* attributes follow.  layers_processed is the pair of the numbers that the
\* string "a-b" holds
save_to_hdf5(g_lon, g_lat, layer_arrays, n_layers, name, dim, layer_min_arg, layer_max_arg) ==
    LET opened == [NoFile EXCEPT !.exists = TRUE, !.longitude = g_lon, !.latitude = g_lat,
                                 !.names = {"longitude", "latitude"}]
    IN  IF name \in opened.names
        THEN [err |-> "ValueError", file |-> opened]
        ELSE [err |-> "",
              file |-> [opened EXCEPT
                          !.names = @ \cup {name},
                          !.layers = layer_arrays,
                          !.original_dimension = dim,
                          !.layers_processed =
                              IF dim = 3
                              THEN << OrElse(layer_min_arg, 0), OrElse(layer_max_arg, n_layers - 1) >>
                              ELSE <<>>]]

\* perform_interpolation, lines 344-351: the file is looked up in the catalog
PerformStart ==
    /\ ipc = "start"
    /\ IF run_req.file_found
       THEN ipc' = "run" /\ UNCHANGED perform
       ELSE ipc' = "done" /\ perform' = "raised"
    /\ UNCHANGED << run_req, original_dim, run_filled, run_gv, run_layer, pre, run_grid,
                    all_results, run_result, run_block, dest, run_ret >>

\* run_interpolation, lines 319-327: the paths are looked up, the file is read
RunRead ==
    /\ ipc = "run"
    /\ IF run_req.var_found
       THEN /\ original_dim' = IF run_req.data.shape[3] = 1 THEN 2 ELSE 3
            /\ ipc' = "read"
       ELSE /\ ipc' = "except"
            /\ UNCHANGED original_dim
    /\ UNCHANGED << run_req, run_filled, run_gv, run_layer, pre, run_grid,
                    all_results, run_result, run_block, dest, run_ret, perform >>

\* run_interpolation, lines 330-332, and preprocess_data, lines 127-153:
\* the layers of the range are kept, the coordinates are validated
RunPreprocessStart ==
    /\ ipc = "read"
    /\ \E rng \in {LayerRange(run_req.data.shape[3], run_req.layer_min, run_req.layer_max)} :
         /\ run_filled' = SliceLayers(run_req.data, rng.layer_min, rng.layer_max)
         /\ pre' = [NoPre EXCEPT !.total_layers = rng.layer_max - rng.layer_min + 1,
                                 !.layer_min = rng.layer_min, !.layer_max = rng.layer_max]
    /\ run_gv' = CoordValid(run_req.longitude, run_req.latitude)
    /\ run_layer' = 0
    /\ ipc' = "fill"
    /\ UNCHANGED << run_req, original_dim, run_grid, all_results, run_result, run_block,
                    dest, run_ret, perform >>

\* preprocess_data, lines 156-185: one iteration of the loop over the layers
RunFillLayer ==
    /\ ipc = "fill"
    /\ run_layer < pre.total_layers
    /\ \E r \in {process_layer(run_req.longitude, run_req.latitude, run_filled, run_layer,
                               CoordValid(run_req.longitude, run_req.latitude), run_gv)} :
         IF r.err # ""
         THEN /\ pre' = [pre EXCEPT !.err = r.err]
              /\ ipc' = "except"
              /\ UNCHANGED << run_filled, run_gv, run_layer >>
         ELSE /\ run_filled' = r.filled_data
              /\ run_gv' = r.global_valid
              /\ run_layer' = run_layer + 1
              /\ UNCHANGED << pre, ipc >>
    /\ UNCHANGED << run_req, original_dim, run_grid, all_results, run_result, run_block,
                    dest, run_ret, perform >>

\* preprocess_data, lines 188-211
RunExtract ==
    /\ ipc = "fill"
    /\ run_layer = pre.total_layers
    /\ \E r \in {extract_valid(run_req.longitude, run_req.latitude, run_filled, run_gv,
                               run_req.lon_min, run_req.lon_max,
                               run_req.lat_min, run_req.lat_max, pre)} :
         /\ pre' = r
         /\ ipc' = IF r.err # "" THEN "except" ELSE "preprocessed"
    /\ UNCHANGED << run_req, original_dim, run_filled, run_gv, run_layer, run_grid,
                    all_results, run_result, run_block, dest, run_ret, perform >>

\* lines 335-338
RunGrid ==
    /\ ipc = "preprocessed"
    /\ run_grid' = create_interpolation_grid(pre.lon_min, pre.lon_max, pre.lat_min, pre.lat_max,
                                             run_req.resolution)
    /\ all_results' = <<>>
    /\ ipc' = "regrid"
    /\ UNCHANGED << run_req, original_dim, run_filled, run_gv, run_layer, pre,
                    run_result, run_block, dest, run_ret, perform >>

\* line 340 and batch_idw, lines 261-269: the call for the next layer; the
\* array of sentinels
RunBatchStart ==
    /\ ipc = "regrid"
    /\ run_block = -1
    /\ Len(all_results) < Len(pre.valid_data_layers)
    /\ run_result' = ConstArray(<< Len(run_grid[2]), Len(run_grid[1]) >>, CUSTOM_MISSING)
    /\ run_block' = 0
    /\ UNCHANGED << ipc, run_req, original_dim, run_filled, run_gv, run_layer, pre, run_grid,
                    all_results, dest, run_ret, perform >>

\* batch_idw, lines 270-278: the next block of the list is written, in the
\* order of the list in both branches
RunBlock ==
    /\ ipc = "regrid"
    /\ run_block >= 0
    /\ run_block < Len(MakeBlocks(Len(run_grid[2]), Len(run_grid[1])))
    /\ run_result' =
         WriteBlock(run_result,
                    process_block(pre.valid_lon, pre.valid_lat,
                                  pre.valid_data_layers[Len(all_results) + 1],
                                  run_grid[1], run_grid[2],
                                  MakeBlocks(Len(run_grid[2]), Len(run_grid[1]))[run_block + 1],
                                  MAX_DISTANCE))
    /\ run_block' = run_block + 1
    /\ UNCHANGED << ipc, run_req, original_dim, run_filled, run_gv, run_layer, pre, run_grid,
                    all_results, dest, run_ret, perform >>

\* batch_idw, lines 280-283, and line 341: the array is returned and appended
RunBatchEnd ==
    /\ ipc = "regrid"
    /\ run_block = Len(MakeBlocks(Len(run_grid[2]), Len(run_grid[1])))
    /\ all_results' = Append(all_results, run_result)
    /\ run_result' = <<>>
    /\ run_block' = -1
    /\ UNCHANGED << ipc, run_req, original_dim, run_filled, run_gv, run_layer, pre, run_grid,
                    dest, run_ret, perform >>

\* line 344: the call of save_to_hdf5 with the arguments of the request
RunSave ==
    /\ ipc = "regrid"
    /\ run_block = -1
    /\ Len(all_results) = Len(pre.valid_data_layers)
    /\ \E r \in {save_to_hdf5(run_grid[1], run_grid[2], all_results, pre.total_layers,
                              run_req.var_name, original_dim,
                              run_req.layer_min, run_req.layer_max)} :
         /\ dest' = r.file
         /\ ipc' = IF r.err # "" THEN "except" ELSE "saved"
    /\ UNCHANGED << run_req, original_dim, run_filled, run_gv, run_layer, pre, run_grid,
                    all_results, run_result, run_block, run_ret, perform >>

\* lines 346-347
RunReturn ==
    /\ ipc = "saved"
    /\ run_ret' = "output_file"
    /\ ipc' = "returned"
    /\ UNCHANGED << run_req, original_dim, run_filled, run_gv, run_layer, pre, run_grid,
                    all_results, run_result, run_block, dest, perform >>

\* lines 349-352: every exception is caught and None is returned
RunExcept ==
    /\ ipc = "except"
    /\ run_ret' = "None"
    /\ ipc' = "returned"
    /\ UNCHANGED << run_req, original_dim, run_filled, run_gv, run_layer, pre, run_grid,
                    all_results, run_result, run_block, dest, perform >>

\* perform_interpolation, lines 373-382
PerformEnd ==
    /\ ipc = "returned"
    /\ perform' = IF run_ret = "None" THEN "raised" ELSE "returned"
    /\ ipc' = "done"
    /\ UNCHANGED << run_req, original_dim, run_filled, run_gv, run_layer, pre, run_grid,
                    all_results, run_result, run_block, dest, run_ret >>

----------------------------------------------------------------------------
(* The inputs of an interpolation request *)

\* the variable has at most MaxLayers layers
MaxLayers == 3

\* the arrangements of the cells of the swath
RunLayouts == {"compact", "sparse", "off_range"}

\* the missing cells of layer l:
\*   "none"    no cell is missing
\*   "corner"  the first cell of the first layer is missing
\*   "rows"    row l of layer l is missing
\*   "all"     every cell is missing
RunMissing == {"none", "corner", "rows", "all"}

MissingCells(pattern, l) ==
    CASE pattern = "none"   -> {}
      [] pattern = "corner" -> IF l = 0 THEN {<<0, 0>>} ELSE {}
      [] pattern = "rows"   -> {c \in Cells(SwathShape) : c[1] = l % SwathShape[1]}
      [] pattern = "all"    -> Cells(SwathShape)

\* the values of layer_min and of layer_max
LayerArgs == {Absent, <<-2>>, <<0>>, <<1>>, <<5>>}

\* the boxes <<lon_min, lon_max, lat_min, lat_max>> of the caller
RunBoxes == { << Absent, Absent, Absent, Absent >>,
              << <<0>>, <<3>>, <<0>>, <<3>> >>,
              << <<5>>, <<6>>, <<0>>, <<1>> >>,
              << <<1>>, Absent, Absent, Absent >> }

\* the names of the variable
RunNames == {"precip", "longitude"}

InitRun ==
    /\ CropIdle /\ FillIdle /\ RegridIdle /\ ExtractIdle /\ DimsIdle /\ HierIdle /\ JobsIdle
    /\ \E layout \in RunLayouts, n \in 1..MaxLayers, pattern \in RunMissing,
          lmin \in LayerArgs, lmax \in LayerArgs, box \in RunBoxes, name \in RunNames,
          found \in { <<TRUE, TRUE>>, <<TRUE, FALSE>>, <<FALSE, FALSE>> } :
         /\ found # <<TRUE, TRUE>> =>
               /\ layout = "compact" /\ n = 1 /\ pattern = "none" /\ lmin = Absent
               /\ lmax = Absent /\ box[1] = Absent /\ box[2] = Absent
         /\ run_req =
              [file_found |-> found[1], var_found |-> found[2], var_name |-> name,
               longitude |-> [c \in Cells(SwathShape) |-> CellPosition(layout, c)[1]],
               latitude  |-> [c \in Cells(SwathShape) |-> CellPosition(layout, c)[2]],
               data |-> [shape |-> SwathShape \o <<n>>,
                         at    |-> [x \in IndexSet(SwathShape \o <<n>>) |->
                                      IF <<x[1], x[2]>> \in MissingCells(pattern, x[3])
                                      THEN MissingMarker(<<x[1], x[2]>>)
                                      ELSE ValueOf(<<x[1], x[2]>>, x[3])]],
               resolution |-> 1,
               lon_min |-> box[1], lon_max |-> box[2], lat_min |-> box[3], lat_max |-> box[4],
               layer_min |-> lmin, layer_max |-> lmax]
    /\ ipc = "start" /\ original_dim = 0 /\ pre = NoPre
    /\ run_filled = <<>> /\ run_gv = {} /\ run_layer = 0
    /\ run_grid = << <<>>, <<>> >> /\ all_results = <<>> /\ dest = NoFile
    /\ run_result = <<>> /\ run_block = -1
    /\ run_ret = "" /\ perform = ""

NextRun ==
    \/ PerformStart /\ UNCHANGED << cropVars, fillVars, regridVars, extractVars, dimsVars, hierVars, jobVars >>
    \/ RunRead /\ UNCHANGED << cropVars, fillVars, regridVars, extractVars, dimsVars, hierVars, jobVars >>
    \/ RunPreprocessStart /\ UNCHANGED << cropVars, fillVars, regridVars, extractVars, dimsVars, hierVars, jobVars >>
    \/ RunFillLayer /\ UNCHANGED << cropVars, fillVars, regridVars, extractVars, dimsVars, hierVars, jobVars >>
    \/ RunExtract /\ UNCHANGED << cropVars, fillVars, regridVars, extractVars, dimsVars, hierVars, jobVars >>
    \/ RunGrid /\ UNCHANGED << cropVars, fillVars, regridVars, extractVars, dimsVars, hierVars, jobVars >>
    \/ RunBatchStart /\ UNCHANGED << cropVars, fillVars, regridVars, extractVars, dimsVars, hierVars, jobVars >>
    \/ RunBlock /\ UNCHANGED << cropVars, fillVars, regridVars, extractVars, dimsVars, hierVars, jobVars >>
    \/ RunBatchEnd /\ UNCHANGED << cropVars, fillVars, regridVars, extractVars, dimsVars, hierVars, jobVars >>
    \/ RunSave /\ UNCHANGED << cropVars, fillVars, regridVars, extractVars, dimsVars, hierVars, jobVars >>
    \/ RunReturn /\ UNCHANGED << cropVars, fillVars, regridVars, extractVars, dimsVars, hierVars, jobVars >>
    \/ RunExcept /\ UNCHANGED << cropVars, fillVars, regridVars, extractVars, dimsVars, hierVars, jobVars >>
    \/ PerformEnd /\ UNCHANGED << cropVars, fillVars, regridVars, extractVars, dimsVars, hierVars, jobVars >>

SpecRun == InitRun /\ [][NextRun]_vars

----------------------------------------------------------------------------
(* extract_hdf5_subset as a state machine.  copy_path is recursive: x_stack
   holds the calls that are pending, the next one first. *)

\* lines 48-71: the file is looked up in the catalog and on the disk
ExtractLookup ==
    /\ xpc = "start"
    /\ IF x_in.file_found /\ x_in.path_exists
       THEN xpc' = "open" /\ UNCHANGED x_ret
       ELSE xpc' = "done" /\ x_ret' = "False"
    /\ UNCHANGED << x_in, x_dst, x_dst_exists, x_stack >>

\* lines 74-76 and 107: the source is opened, then the output file is
\* created, and copy_path is called with target_path twice
ExtractOpenFiles ==
    /\ xpc = "open"
    /\ IF x_in.readable
       THEN /\ x_dst' = NewFile
            /\ x_dst_exists' = TRUE
            /\ x_stack' = << << x_in.target_path, x_in.target_path >> >>
            /\ xpc' = "copy"
       ELSE /\ xpc' = "except"
            /\ UNCHANGED << x_dst, x_dst_exists, x_stack >>
    /\ UNCHANGED << x_in, x_ret >>

\* the names of the members of any group, in h5py's order
AllKeys == << "d", "e", "g", "h", "t" >>

\* the same, were only the first member of a group copied
ExtractCopy_FirstMemberOnly ==
    /\ xpc = "copy"
    /\ x_stack # <<>>
    /\ \E src_path \in {Head(x_stack)[1]}, dst_path \in {Head(x_stack)[2]} :
         IF ~InFile(x_in.file, src_path)
         THEN /\ x_stack' = Tail(x_stack)
              /\ UNCHANGED x_dst
         ELSE \E src_obj \in {x_in.file.objs[Resolve(src_path)]} :
                IF src_obj.kind = "group"
                THEN /\ x_dst' = copy_attrs(IF InFile(x_dst, dst_path) THEN x_dst
                                            ELSE create_group(x_dst, dst_path),
                                            dst_path, src_obj.attrs)
                     /\ x_stack' =
                          [i \in 1..Min(1, Len(KeysOf(x_in.file, Resolve(src_path), AllKeys))) |->
                             << src_path \o << KeysOf(x_in.file, Resolve(src_path), AllKeys)[i] >>,
                                dst_path \o << KeysOf(x_in.file, Resolve(src_path), AllKeys)[i] >> >>]
                          \o Tail(x_stack)
                ELSE /\ x_dst' = copy_attrs(create_dataset(x_dst, dst_path, src_obj.data),
                                            dst_path, src_obj.attrs)
                     /\ x_stack' = Tail(x_stack)
    /\ UNCHANGED << xpc, x_in, x_dst_exists, x_ret >>

\* copy_path, lines 79-104: one call, the calls for the members of a group
\* being left pending before the calls that were
ExtractCopy ==
    /\ xpc = "copy"
    /\ x_stack # <<>>
    /\ \E src_path \in {Head(x_stack)[1]}, dst_path \in {Head(x_stack)[2]} :
         IF ~InFile(x_in.file, src_path)
         THEN /\ x_stack' = Tail(x_stack)
              /\ UNCHANGED x_dst
         ELSE \E src_obj \in {x_in.file.objs[Resolve(src_path)]} :
                IF src_obj.kind = "group"
                THEN /\ x_dst' = copy_attrs(IF InFile(x_dst, dst_path) THEN x_dst
                                            ELSE create_group(x_dst, dst_path),
                                            dst_path, src_obj.attrs)
                     /\ x_stack' =
                          [i \in 1..Len(KeysOf(x_in.file, Resolve(src_path), AllKeys)) |->
                             << src_path \o << KeysOf(x_in.file, Resolve(src_path), AllKeys)[i] >>,
                                dst_path \o << KeysOf(x_in.file, Resolve(src_path), AllKeys)[i] >> >>]
                          \o Tail(x_stack)
                ELSE /\ x_dst' = copy_attrs(create_dataset(x_dst, dst_path, src_obj.data),
                                            dst_path, src_obj.attrs)
                     /\ x_stack' = Tail(x_stack)
    /\ UNCHANGED << xpc, x_in, x_dst_exists, x_ret >>

\* lines 107-110: the first call of copy_path has returned
ExtractFinish ==
    /\ xpc = "copy"
    /\ x_stack = <<>>
    /\ x_ret' = "True"
    /\ xpc' = "done"
    /\ UNCHANGED << x_in, x_dst, x_dst_exists, x_stack >>

\* lines 112-114
ExtractExcept ==
    /\ xpc = "except"
    /\ x_ret' = "False"
    /\ xpc' = "done"
    /\ UNCHANGED << x_in, x_dst, x_dst_exists, x_stack >>

----------------------------------------------------------------------------
(* The inputs of extract_hdf5_subset *)

\* the groups and the datasets a source file can hold
XGroupPaths == { <<"g">>, <<"g", "h">> }

XDatasetPaths == { <<"t">>, <<"g", "d">>, <<"g", "h", "e">> }

\* the contents of the dataset at a path, the value of the attribute of an object
XValue(path) ==
    CASE path = <<>>              -> 1
      [] path = <<"g">>           -> 2
      [] path = <<"g", "h">>      -> 3
      [] path = <<"t">>           -> 4
      [] path = <<"g", "d">>      -> 5
      [] path = <<"g", "h", "e">> -> 6

\* the source file with the objects P, those of A carrying an attribute
XFile(P, A) ==
    LET attrs(path) == IF path \in A THEN [a \in {"units"} |-> 10 * XValue(path)] ELSE NoAttrs
    IN  [objs |-> [path \in P \cup {<<>>} |->
                     IF path \in XDatasetPaths
                     THEN DatasetObject(attrs(path), XValue(path))
                     ELSE GroupObject(attrs(path))]]

\* target_path: "t", "/t", "g", "/g", "g/", "g/d", "g/h", "/g/h/e", "/", ""
XTargets == { <<"t">>, <<"", "t">>, <<"g">>, <<"", "g">>, <<"g", "">>, <<"g", "d">>,
              <<"g", "h">>, <<"", "g", "h", "e">>, <<"", "">>, <<"">> }

InitExtract ==
    /\ CropIdle /\ FillIdle /\ RegridIdle /\ RunIdle /\ DimsIdle /\ HierIdle /\ JobsIdle
    /\ \E P \in SUBSET (XGroupPaths \cup XDatasetPaths), target \in XTargets,
          found \in { <<TRUE, TRUE, TRUE>>, <<TRUE, TRUE, FALSE>>,
                      <<TRUE, FALSE, FALSE>>, <<FALSE, FALSE, FALSE>> } :
         /\ \A path \in P : Len(path) > 1 => SubSeq(path, 1, Len(path) - 1) \in P
         /\ \E A \in SUBSET (P \cup {<<>>}) :
              /\ found # <<TRUE, TRUE, TRUE>> => (A = {} /\ P = {<<"t">>})
              /\ x_in = [file_found |-> found[1], path_exists |-> found[2],
                         readable |-> found[3], file |-> XFile(P, A), target_path |-> target]
    /\ xpc = "start" /\ x_dst = NewFile /\ x_dst_exists = FALSE
    /\ x_stack = <<>> /\ x_ret = ""

NextExtract ==
    \/ ExtractLookup /\ UNCHANGED << cropVars, fillVars, regridVars, runVars, dimsVars, hierVars, jobVars >>
    \/ ExtractOpenFiles /\ UNCHANGED << cropVars, fillVars, regridVars, runVars, dimsVars, hierVars, jobVars >>
    \/ ExtractCopy /\ UNCHANGED << cropVars, fillVars, regridVars, runVars, dimsVars, hierVars, jobVars >>
    \/ ExtractFinish /\ UNCHANGED << cropVars, fillVars, regridVars, runVars, dimsVars, hierVars, jobVars >>
    \/ ExtractExcept /\ UNCHANGED << cropVars, fillVars, regridVars, runVars, dimsVars, hierVars, jobVars >>

SpecExtract == InitExtract /\ [][NextExtract]_vars

----------------------------------------------------------------------------
(* Dimension analysis and the crop of one dataset *)

\* DimensionAnalyzer.find_lat_lon_dimensions applied to the shapes
FindDimensions ==
    /\ dpc = "args"
    /\ d_dims' = find_lat_lon_dimensions(d_lat_shape, d_lon_shape, d_data_shape)
    /\ dpc' = "found"
    /\ UNCHANGED << d_lat_shape, d_lon_shape, d_data_shape, d_sel, d_crop >>

\* the index arrays _get_indices can return for an axis of the given length:
\* the non-empty ascending selections
Selections(length) == {SortedSeq(S) : S \in (SUBSET (0..(length - 1))) \ {{}}}

\* HDF5Cropper._crop_dataset on a dataset whose element at an index is that
\* index, with index arrays that select rows and columns of the coordinates
CropDataset ==
    /\ dpc = "args"
    /\ \E li \in Selections(d_lat_shape[1]),
          lo \in Selections(d_lon_shape[Len(d_lon_shape)]) :
         /\ d_sel' = << li, lo >>
         /\ \E r \in {crop_dataset(IdArray(d_data_shape), [shape |-> d_lat_shape],
                                   [shape |-> d_lon_shape], li, lo)} :
              d_crop' = r
    /\ d_dims' = find_lat_lon_dimensions(d_lat_shape, d_lon_shape, d_data_shape)
    /\ dpc' = "cropped"
    /\ UNCHANGED << d_lat_shape, d_lon_shape, d_data_shape >>

\* the largest number of axes of a dataset
MaxRank == 3

\* the axis lengths of the coordinates and of the datasets
AxisLens == {1, 2, 3}

\* the data shapes: every rank up to MaxRank
DataShapes == UNION {[1..n -> AxisLens] : n \in 1..MaxRank}

\* the coordinate shapes: rank-1 latitude and longitude of any lengths, or
\* rank-2 latitude and longitude fields of one shape (R, C)
CoordShapes ==
    {<< <<a>>, <<b>> >> : a \in AxisLens, b \in AxisLens}
    \cup {<< <<r, c>>, <<r, c>> >> : r \in AxisLens, c \in AxisLens}

InitDims ==
    /\ CropIdle /\ FillIdle /\ RegridIdle /\ RunIdle /\ ExtractIdle /\ HierIdle /\ JobsIdle
    /\ \E cs \in CoordShapes, ds \in DataShapes :
         /\ d_lat_shape = cs[1] /\ d_lon_shape = cs[2] /\ d_data_shape = ds
    /\ dpc = "args" /\ d_dims = <<>> /\ d_sel = <<>> /\ d_crop = <<>>

NextDims ==
    \/ FindDimensions /\ UNCHANGED << cropVars, fillVars, regridVars, runVars, extractVars, hierVars, jobVars >>
    \/ CropDataset /\ UNCHANGED << cropVars, fillVars, regridVars, runVars, extractVars, hierVars, jobVars >>

SpecDims == InitDims /\ [][NextDims]_vars

----------------------------------------------------------------------------
(* The group set-up of one crop *)

\* AttributeCopier.copy_group_attributes: every attribute of the source group
\* is set on the target group
copy_group_attributes(source_attrs, target_attrs) == source_attrs @@ target_attrs

\* the attributes of the source's root and of its groups: one attribute whose
\* value tells the groups apart
SourceAttrs(path) == [a \in {"title"} |-> path]

\* the groups one create_hierarchy call created, in the order of the loop
CreatedGroups(before, after, parts) ==
    SelectSeq([i \in 1..Len(parts) |-> SubSeq(parts, 1, i)],
              LAMBDA g : g \in after.groups \ before.groups)

\* a loop that copies the attributes on every group it walks through, created
\* or reused
AttrsCopiedFor_EveryVisited(before, after, parts, source) ==
    SelectSeq([i \in 1..Len(parts) |-> SubSeq(parts, 1, i)],
              LAMBDA g : g \in after.groups /\ Contains(source, <<>>, g))

\* lines 174-175: the groups whose attributes one create_hierarchy call
\* copied: those it created whose path is in the source file
AttrsCopiedFor(before, after, parts, source) ==
    SelectSeq(CreatedGroups(before, after, parts), LAMBDA g : Contains(source, <<>>, g))

\* the attributes of the destination after the copies for the groups gs
RECURSIVE CopyAll(_, _)
CopyAll(attrs, gs) ==
    IF gs = <<>> THEN attrs
    ELSE CopyAll((gs[1] :> copy_group_attributes(SourceAttrs(gs[1]),
                      IF gs[1] \in DOMAIN attrs THEN attrs[gs[1]] ELSE NoAttrs)) @@ attrs,
                 Tail(gs))

\* lines 444-446: the root attributes are copied
HierCopyRoot ==
    /\ hpc = "start"
    /\ h_attrs' = [h_attrs EXCEPT ![<<>>] = copy_group_attributes(SourceAttrs(<<>>), @)]
    /\ h_copies' = Append(h_copies, <<>>)
    /\ hpc' = "root"
    /\ UNCHANGED << h_src, h_args, h_dst, h_created, h_out, h_err >>

\* one "output group = create_hierarchy(...); input group = fin[...]" pair
\* for the path arg: the primed variables, the returned group stored under
\* the field of h_out named by slot
HierResolve(arg, slot, next_pc) ==
    \E r \in {create_hierarchy(h_dst, arg)} :
      \E made \in {CreatedGroups(h_dst, r.file, arg.parts)} :
        /\ h_dst' = r.file
        /\ h_created' = h_created \o made
        /\ h_copies' = h_copies \o AttrsCopiedFor(h_dst, r.file, arg.parts, h_src)
        /\ h_attrs' = CopyAll([g \in SeqToSet(made) |-> NoAttrs] @@ h_attrs,
                              AttrsCopiedFor(h_dst, r.file, arg.parts, h_src))
        /\ IF r.err # ""
           THEN /\ hpc' = "failed" /\ h_err' = r.err /\ h_out' = h_out
           ELSE IF ~Opens(h_src, arg)
           THEN /\ hpc' = "missing" /\ h_err' = "KeyError" /\ h_out' = h_out
           ELSE /\ hpc' = next_pc /\ h_err' = ""
                /\ h_out' = [h_out EXCEPT ![slot] = r.group]

\* lines 448-454: the data group
HierDataGroup ==
    /\ hpc = "root"
    /\ IF h_args.data_group.none
       THEN /\ hpc' = "data"
            /\ h_out' = [h_out EXCEPT !.data = <<>>]
            /\ UNCHANGED << h_dst, h_attrs, h_copies, h_created, h_err >>
       ELSE HierResolve(h_args.data_group, "data", "data")
    /\ UNCHANGED << h_src, h_args >>

\* lines 456-461: the latlon group
HierLatlonGroup ==
    /\ hpc = "data"
    /\ IF h_args.latlon_group.none \/ h_args.latlon_group = h_args.data_group
       THEN /\ hpc' = "done"
            /\ h_out' = [h_out EXCEPT !.latlon = h_out.data]
            /\ UNCHANGED << h_dst, h_attrs, h_copies, h_created, h_err >>
       ELSE HierResolve(h_args.latlon_group, "latlon", "done")
    /\ UNCHANGED << h_src, h_args >>

\* the longest group path of the inputs
MaxDepth == 3

\* the group paths of the inputs
HierPaths == UNION {[1..n -> {"G", "H"}] : n \in 1..MaxDepth}

\* the group arguments: None, every path, "" and "/G/H"
HierGroupArgs ==
    {GroupNone, GroupAt(<<"">>), GroupAt(<<"", "G", "H">>)} \cup {GroupAt(q) : q \in HierPaths}

\* the source files: the groups of both arguments and their ancestors, or
\* those of the data group only, or no group at all, or a dataset where the
\* data group is looked for
HierSources(dg, lg) ==
    LET anc(g) == IF g.none THEN {} ELSE Ancestors(g.parts)
        file(G) == [groups |-> G, dsets |-> NoDatasets]
    IN  {file(anc(dg) \cup anc(lg)), file(anc(dg)), file({})}
        \cup (IF dg.none \/ dg.parts = <<>> THEN {}
              ELSE {[groups |-> anc(dg) \ {dg.parts},
                     dsets  |-> dg.parts :> IdArray(<<1, 1>>)]})

InitHier ==
    /\ CropIdle /\ FillIdle /\ RegridIdle /\ RunIdle /\ ExtractIdle /\ DimsIdle /\ JobsIdle
    /\ \E dg \in HierGroupArgs, lg \in HierGroupArgs :
         /\ h_args = [data_group |-> dg, latlon_group |-> lg]
         /\ h_src \in HierSources(dg, lg)
    /\ hpc = "start" /\ h_dst = EmptyFile /\ h_attrs = (<<>> :> NoAttrs)
    /\ h_copies = <<>> /\ h_created = <<>>
    /\ h_out = [data |-> <<>>, latlon |-> <<>>] /\ h_err = ""

NextHier ==
    \/ HierCopyRoot /\ UNCHANGED << cropVars, fillVars, regridVars, runVars, extractVars, dimsVars, jobVars >>
    \/ HierDataGroup /\ UNCHANGED << cropVars, fillVars, regridVars, runVars, extractVars, dimsVars, jobVars >>
    \/ HierLatlonGroup /\ UNCHANGED << cropVars, fillVars, regridVars, runVars, extractVars, dimsVars, jobVars >>

SpecHier == InitHier /\ [][NextHier]_vars

----------------------------------------------------------------------------
(* The job system *)

\* the number of requests that submit a task
MaxTasks == 2

TaskIds == 1..MaxTasks

\* no entry for a task id in task_statuses
NoEntry == [status |-> "NONE", has_result |-> FALSE]

\* /api/crop, /api/interpolate, /api/extract_hdf5_subset: the request is
\* refused (a parameter is missing, the file is unknown) before a task exists
SubmitRefused(t) ==
    /\ hnd[t] = "new"
    /\ hnd' = [hnd EXCEPT ![t] = "refused"]
    /\ UNCHANGED << task_queue, task_statuses, wpc, w_task, submitted, taken, resp >>

\* task_queue.put((task_id, task_data)) of the three submitting handlers
SubmitPut(t) ==
    /\ hnd[t] = "new"
    /\ task_queue' = Append(task_queue, t)
    /\ submitted' = Append(submitted, t)
    /\ hnd' = [hnd EXCEPT ![t] = "put"]
    /\ UNCHANGED << task_statuses, wpc, w_task, taken, resp >>

\* task_statuses[task_id] = {'status': 'PENDING', ...} and the 202 response
SubmitSetPending(t) ==
    /\ hnd[t] = "put"
    /\ task_statuses' = [task_statuses EXCEPT ![t] = [status |-> "PENDING", has_result |-> FALSE]]
    /\ hnd' = [hnd EXCEPT ![t] = "accepted"]
    /\ UNCHANGED << task_queue, wpc, w_task, submitted, taken, resp >>

\* worker, lines 28-29: the queue is not empty and the oldest task is taken
WorkerGet ==
    /\ wpc = "idle"
    /\ task_queue # <<>>
    /\ w_task' = Head(task_queue)
    /\ task_queue' = Tail(task_queue)
    /\ taken' = Append(taken, Head(task_queue))
    /\ wpc' = "got"
    /\ UNCHANGED << task_statuses, hnd, submitted, resp >>

\* worker, line 30: the entry of the task becomes RUNNING
WorkerSetRunning ==
    /\ wpc = "got"
    /\ task_statuses' = [task_statuses EXCEPT ![w_task] = [status |-> "RUNNING", has_result |-> FALSE]]
    /\ wpc' = "running"
    /\ UNCHANGED << task_queue, hnd, w_task, submitted, taken, resp >>

\* worker, lines 82 and 85: the entry written after the engine call
WorkerEntry(returned) ==
    IF returned THEN [status |-> "COMPLETED", has_result |-> TRUE]
    ELSE [status |-> "FAILED", has_result |-> FALSE]

\* worker, lines 32-89: the engine call of the task returns or raises, and
\* the entry of the task becomes COMPLETED or FAILED
WorkerRunTask ==
    /\ wpc = "running"
    /\ \E returned \in BOOLEAN :
         task_statuses' = [task_statuses EXCEPT ![w_task] = WorkerEntry(returned)]
    /\ wpc' = "idle"
    /\ w_task' = 0
    /\ UNCHANGED << task_queue, hnd, submitted, taken, resp >>

\* get_task_status: the entry of the task, or 404 when there is none
GetTaskStatus(t) ==
    /\ resp' = [route |-> "status", task |-> t,
                code |-> IF task_statuses[t].status = "NONE" THEN 404 ELSE 200,
                status |-> task_statuses[t].status]
    /\ UNCHANGED << task_queue, task_statuses, hnd, wpc, w_task, submitted, taken >>

\* the response of download_file for an entry, the result file existing or not
DownloadResponse(entry, file_exists) ==
    IF entry.status = "COMPLETED" /\ entry.has_result /\ file_exists THEN 200 ELSE 404

\* download_file: the file is sent for a COMPLETED entry whose result exists
DownloadFile(t) ==
    /\ \E file_exists \in BOOLEAN :
         resp' = [route |-> "download", task |-> t,
                  code |-> DownloadResponse(task_statuses[t], file_exists),
                  status |-> task_statuses[t].status]
    /\ UNCHANGED << task_queue, task_statuses, hnd, wpc, w_task, submitted, taken >>

InitJobs ==
    /\ CropIdle /\ FillIdle /\ RegridIdle /\ RunIdle /\ ExtractIdle /\ DimsIdle /\ HierIdle
    /\ task_queue = <<>>
    /\ task_statuses = [t \in TaskIds |-> NoEntry]
    /\ hnd = [t \in TaskIds |-> "new"]
    /\ wpc = "idle" /\ w_task = 0
    /\ submitted = <<>> /\ taken = <<>>
    /\ resp = [route |-> "none", task |-> 0, code |-> 0, status |-> "NONE"]

OtherThanJobs == << cropVars, fillVars, regridVars, runVars, extractVars, dimsVars, hierVars >>

NextJobs ==
    \/ (\E t \in TaskIds : SubmitRefused(t)) /\ UNCHANGED OtherThanJobs
    \/ (\E t \in TaskIds : SubmitPut(t)) /\ UNCHANGED OtherThanJobs
    \/ (\E t \in TaskIds : SubmitSetPending(t)) /\ UNCHANGED OtherThanJobs
    \/ WorkerGet /\ UNCHANGED OtherThanJobs
    \/ WorkerSetRunning /\ UNCHANGED OtherThanJobs
    \/ WorkerRunTask /\ UNCHANGED OtherThanJobs
    \/ (\E t \in TaskIds : GetTaskStatus(t)) /\ UNCHANGED OtherThanJobs
    \/ (\E t \in TaskIds : DownloadFile(t)) /\ UNCHANGED OtherThanJobs

SpecJobs == InitJobs /\ [][NextJobs]_vars

\* the worker keeps running, every engine call returns or raises, and a
\* handler that has put its task goes on to its next statement
SpecJobsFair ==
    /\ InitJobs /\ [][NextJobs]_vars
    /\ WF_vars(WorkerGet /\ UNCHANGED OtherThanJobs)
    /\ WF_vars(WorkerSetRunning /\ UNCHANGED OtherThanJobs)
    /\ WF_vars(WorkerRunTask /\ UNCHANGED OtherThanJobs)
    /\ \A t \in TaskIds : WF_vars(SubmitSetPending(t) /\ UNCHANGED OtherThanJobs)

----------------------------------------------------------------------------
(* The bounding box as the claims state it, from the arguments of crop_file:
   lon_min' and lon_max' are the longitudes normalize_coordinates returns *)

NormLonMin ==
    normalize_coordinates(req.lat_min, req.lat_max, req.lon_min, req.lon_max)[3]

NormLonMax ==
    normalize_coordinates(req.lat_min, req.lat_max, req.lon_min, req.lon_max)[4]

ClampLatMin == IF req.lat_min < -900 THEN -900 ELSE req.lat_min

ClampLatMax == IF req.lat_max > 900 THEN 900 ELSE req.lat_max

BoxWraps == F64Less(NormLonMax, NormLonMin)

\* the normalized longitude selection
InLonSelection(v) ==
    IF BoxWraps
    THEN \/ InLonRange(v, NormLonMin, F64FromTenths(1800))
         \/ InLonRange(v, F64FromTenths(-1800), NormLonMax)
    ELSE InLonRange(v, NormLonMin, NormLonMax)

InLatSelection(v) == ClampLatMin <= v /\ v <= ClampLatMax

\* the coordinates have been cropped and written
CoordsWritten == pc \in {"datasets", "done"}

OutLat == out.dsets[out_latlon_group \o <<req.lat_var>>]

OutLon == out.dsets[out_latlon_group \o <<req.lon_var>>]

Elements(arr) == {arr.at[x] : x \in IndexSet(arr.shape)}

\* C1: with rank-1 coordinates, once crop_file has written the cropped
\* coordinates, every cropped latitude lies in the clamped [lat_min, lat_max]
\* and every cropped longitude lies in the normalized longitude selection
C1_CroppedCoordinatesInBox ==
    (CoordsWritten /\ ~is_2d_grid) =>
        /\ \A v \in Elements(OutLat) : InLatSelection(v)
        /\ \A v \in Elements(OutLon) : InLonSelection(v)

\* the same for the crops whose variable list does not name a coordinate
\* dataset, and for every crop before the loop over the variables
CoordinatesInBoxUnlessListed ==
    (CoordsWritten /\ ~is_2d_grid
        /\ (var_i = 0 \/ \A i \in 1..Len(data_vars) :
                            data_vars[i] \notin {req.lat_var, req.lon_var})) =>
        /\ \A v \in Elements(OutLat) : InLatSelection(v)
        /\ \A v \in Elements(OutLon) : InLonSelection(v)

\* C2 as stated: when the normalized box wraps, index i is selected if and
\* only if lon[i] >= lon_min' or lon[i] <= lon_max'
C2_Original ==
    (CoordsWritten /\ ~is_2d_grid /\ BoxWraps) =>
        \A i \in 0..(Lons.shape[1] - 1) :
            (i \in SeqToSet(all_lon_indices))
                <=> \/ F64Leq(NormLonMin, F64FromTenths(Lons.at[<<i>>]))
                    \/ F64Leq(F64FromTenths(Lons.at[<<i>>]), NormLonMax)

\* C2 amended: when the normalized box wraps, index i is selected if and only
\* if lon_min' <= lon[i] <= 180 or -180 <= lon[i] <= lon_max'; 175 and -175
\* are selected and 0 is not for the box 170..-170
C2_AntimeridianSelection ==
    (CoordsWritten /\ ~is_2d_grid /\ BoxWraps) =>
        /\ \A i \in 0..(Lons.shape[1] - 1) :
              (i \in SeqToSet(all_lon_indices))
                  <=> \/ InLonRange(Lons.at[<<i>>], NormLonMin, F64FromTenths(1800))
                      \/ InLonRange(Lons.at[<<i>>], F64FromTenths(-1800), NormLonMax)
        /\ (req.lon_min = 1700 /\ req.lon_max = -1700) =>
              \A i \in 0..(Lons.shape[1] - 1) :
                  /\ Lons.at[<<i>>] \in {1750, -1750} => i \in SeqToSet(all_lon_indices)
                  /\ Lons.at[<<i>>] = 0 => i \notin SeqToSet(all_lon_indices)

\* C2 witness: the box 170..-170 over longitudes -175, 0 and 175
C2_Witness ==
    /\ pc = "done" /\ pass = 1 /\ ~is_2d_grid
    /\ req.lon_min = 1700 /\ req.lon_max = -1700
    /\ Elements(Lons) = {-1750, 0, 1750}
    /\ Elements(OutLon) = {-1750, 1750}

\* the cells of the source that the cropped variable v2 (of the grid's shape,
\* each element naming its own source cell) holds
KeptCells == Elements(out.dsets[out_data_group \o <<"v2">>])

\* the source holds the variable v2, of the shape of the coordinate grid
HasGridVariable ==
    /\ (in_data_group \o <<"v2">>) \in DOMAIN src.dsets
    /\ src.dsets[in_data_group \o <<"v2">>] = IdArray(Lats.shape)

\* C3: with rank-2 coordinates, every cell whose latitude and longitude both
\* satisfy the box is in the cropped output, its row in the row index set and
\* its column in the column index set, and every cell whose row and column
\* are both outside the index sets is not in the output
C3_RectangularSuperset ==
    (pc = "done" /\ pass = 1 /\ is_2d_grid /\ HasGridVariable) =>
        /\ (out_data_group \o <<"v2">>) \in DOMAIN out.dsets
        /\ \A c \in IndexSet(Lats.shape) :
              /\ (InLatSelection(Lats.at[c]) /\ InLonSelection(Lons.at[c])) =>
                    /\ c[1] \in SeqToSet(lat_indices)
                    /\ c[2] \in SeqToSet(all_lon_indices)
                    /\ c \in KeptCells
              /\ (c[1] \notin SeqToSet(lat_indices)
                    /\ c[2] \notin SeqToSet(all_lon_indices)) =>
                    c \notin KeptCells

\* C3 witness: a finished crop of a grid across the antimeridian whose output
\* holds cells of the box on both sides of the antimeridian and, with them, a
\* cell outside the box
C3_Witness ==
    /\ pc = "done" /\ pass = 1 /\ is_2d_grid /\ BoxWraps /\ HasGridVariable
    /\ \E c \in KeptCells : ~(InLatSelection(Lats.at[c]) /\ InLonSelection(Lons.at[c]))
    /\ \E c \in KeptCells : Lons.at[c] = -1750 /\ InLatSelection(Lats.at[c])
    /\ \E c \in KeptCells : Lons.at[c] = 1750 /\ InLatSelection(Lats.at[c])

\* the data variables of a file: every dataset but the two coordinates
DataVariables(file) ==
    {p \in DOMAIN file.dsets :
        p[Len(p)] # req.lat_var /\ p[Len(p)] # req.lon_var}

\* C4 as stated: cropping the output of a crop again, with the same
\* arguments, yields the same data variables, coordinate arrays and
\* data-variable contents as the first output
C4_Idempotent ==
    (pass = 2 /\ pc \in {"done", "failed"}) =>
        /\ pc = "done"
        /\ DataVariables(out) = DataVariables(first)
        /\ out.dsets = first.dsets

\* the same for the coordinate arrays alone, which do come out identical
C4_CoordinatesIdempotent ==
    (pass = 2 /\ pc \in {"done", "failed"}) =>
        /\ pc = "done"
        /\ OutLat = first.dsets[out_latlon_group \o <<req.lat_var>>]
        /\ OutLon = first.dsets[out_latlon_group \o <<req.lon_var>>]

\* the number of elements of a rank-1 array that satisfy a predicate
CountIn(arr, P(_)) == Cardinality({i \in 0..(arr.shape[1] - 1) : P(arr.at[<<i>>])})

\* C5 as stated: with rank-1 coordinates, a variable of shape
\* (len(lat), len(lon)) is written cropped to (number of latitudes in the
\* box, number of longitudes in the selection), element (a, b) being the
\* source element (lat_indices[a], lon_indices[b])
C5_CroppedVariable ==
    (pc = "done" /\ pass = 1 /\ ~is_2d_grid
        /\ (in_data_group \o <<"v1">>) \in DOMAIN src.dsets
        /\ src.dsets[in_data_group \o <<"v1">>].shape = <<Lats.shape[1], Lons.shape[1]>>) =>
        /\ (out_data_group \o <<"v1">>) \in DOMAIN out.dsets
        /\ LET v == out.dsets[out_data_group \o <<"v1">>]
           IN  /\ v.shape = <<CountIn(Lats, InLatSelection), CountIn(Lons, InLonSelection)>>
               /\ \A x \in IndexSet(v.shape) :
                     v.at[x] = src.dsets[in_data_group \o <<"v1">>].at[
                                   <<lat_indices[x[1] + 1], all_lon_indices[x[2] + 1]>>]

\* C6: a fatal error after validation leaves no file at the output path and
\* is raised as HDF5CropperError
C6_FatalErrorDeletesOutput ==
    /\ (pc = "failed" /\ raised # "") => (~out_exists /\ result = "HDF5CropperError")
    /\ (pc = "raised") =>
          raised \in {"HDF5CropperError", "KeyError", "ValueError", "TypeError",
                      "AttributeError"}
    /\ (pc \in {"datasets", "done"}) => (raised = "" /\ out_exists)

\* C6 witness: crop_file has failed because the data group is absent from
\* the source, after creating the output file with that group in it
C6_Witness ==
    /\ pc = "failed" /\ raised = "KeyError" /\ ~out_exists
    /\ result = "HDF5CropperError"
    /\ ~req.data_group.none /\ req.data_group.parts # <<>>
    /\ ~Opens(src, req.data_group)

\* C7: a failure on one variable never aborts crop_file: the loop counts
\* every variable it has taken exactly once, as processed or as skipped,
\* takes every variable of the list, keeps the output file, and crop_file
\* fails only before the loop has started
C7_PerVariableFailuresAreCounted ==
    /\ (pc \in {"datasets", "done"}) =>
          /\ processed_datasets + skipped_datasets = var_i
          /\ var_i <= Len(data_vars)
          /\ out_exists
          /\ data_vars = IF req.data_vars_given THEN req.data_vars
                          ELSE SelectSeq(AllNames,
                                   LAMBDA nm : nm \notin {req.lat_var, req.lon_var}
                                       /\ (in_data_group \o <<nm>>) \in DOMAIN src.dsets)
          /\ processed_datasets =
                Cardinality({i \in 1..var_i :
                               /\ (in_data_group \o <<data_vars[i]>>) \in DOMAIN src.dsets
                               /\ crop_dataset(src.dsets[in_data_group \o <<data_vars[i]>>],
                                               Lats, Lons, lat_indices,
                                               all_lon_indices).tag = "ok"})
          /\ \A i \in 1..var_i :
                data_vars[i] \notin {req.lat_var, req.lon_var} =>
                    ((out_data_group \o <<data_vars[i]>>) \in DOMAIN out.dsets
                       <=> /\ (in_data_group \o <<data_vars[i]>>) \in DOMAIN src.dsets
                           /\ crop_dataset(src.dsets[in_data_group \o <<data_vars[i]>>],
                                           Lats, Lons, lat_indices,
                                           all_lon_indices).tag = "ok")
    /\ (pc = "done") =>
          /\ processed_datasets + skipped_datasets = Len(data_vars)
          /\ result = "returned"
    /\ (pc \in {"raised", "failed"}) => (var_i = 0 /\ data_vars = <<>>)

\* C7 witness: a finished crop that skipped a missing variable and a variable
\* whose slicing raised, and then processed another one
C7_Witness ==
    /\ pc = "done" /\ pass = 1 /\ out_exists
    /\ skipped_datasets >= 1 /\ processed_datasets >= 1
    /\ \E i \in 1..Len(data_vars), j \in 1..Len(data_vars) :
          /\ i < j
          /\ (in_data_group \o <<data_vars[i]>>) \in DOMAIN src.dsets
          /\ crop_dataset(src.dsets[in_data_group \o <<data_vars[i]>>], Lats, Lons,
                          lat_indices, all_lon_indices).tag \in {"TypeError", "IndexError"}
          /\ (out_data_group \o <<data_vars[j]>>) \in DOMAIN out.dsets

----------------------------------------------------------------------------
(* Claims about preprocess_data *)

\* the loop over the layers has ended without an exception
AllLayersProcessed == fpc \in {"layers", "done"} /\ layer = total_layers /\ total_layers > 0

\* layer l has been processed by the loop
LayerProcessed(l) == fpc \in {"layers", "done"} /\ l < layer

\* the value of cell c in layer l was missing and the gap filling wrote a
\* value in its place
Repaired(c, l) ==
    /\ IsMissing(LayerOf(data, l)[c])
    /\ ~IsMissing(LayerOf(filled_data, l)[c])

\* C8: once every layer is processed, a cell is globally valid if and only
\* if its coordinates are valid and in every layer its value was not missing
\* or was repaired; so no value handed to the regridder for a globally valid
\* cell is the sentinel -9999.9 or NaN
C8_GloballyValidIffValidOrRepaired ==
    AllLayersProcessed =>
        /\ \A c \in Cells(SwathShape) :
              c \in global_valid <=>
                 /\ c \in coord_valid
                 /\ \A l \in 0..(total_layers - 1) :
                       ~IsMissing(LayerOf(data, l)[c]) \/ Repaired(c, l)
        /\ \A c \in global_valid : \A l \in 0..(total_layers - 1) :
              ~IsMissing(LayerOf(filled_data, l)[c])
        /\ fpc = "done" =>
              \A l \in 1..Len(valid_data_layers) : \A i \in 1..Len(valid_data_layers[l]) :
                 ~IsMissing(valid_data_layers[l][i])

\* the valid samples of layer l closer than MAX_DISTANCE to cell m
SamplesInRange(l, m) ==
    {v \in coord_valid \ MissingMask(LayerOf(data, l), coord_valid) :
        DistSq(longitude, latitude, m, v) < MAX_DISTANCE * MAX_DISTANCE}

\* C9: a processed layer in which a single cell is missing, with exactly one
\* valid sample closer than MAX_DISTANCE to it, has that cell filled with the
\* value of that sample
C9_SingleNeighbourFills ==
    \A l \in 0..(total_layers - 1) : \A m \in coord_valid :
       ( /\ LayerProcessed(l)
         /\ {c \in Cells(SwathShape) : IsMissing(LayerOf(data, l)[c])} = {m}
         /\ Cardinality(SamplesInRange(l, m)) = 1 )
       => \E v \in SamplesInRange(l, m) :
             LayerOf(filled_data, l)[m] = LayerOf(data, l)[v]

\* C10: the iteration of the loop for a layer without missing cells changes
\* no value of the layer, removes no cell from the globally valid set and
\* raises nothing
C10_ZeroMissingLayerUnchanged ==
    [][ ( /\ fpc = "layers" /\ layer < total_layers
          /\ \A c \in Cells(SwathShape) :
                /\ LayerOf(filled_data, layer)[c] # CUSTOM_MISSING
                /\ LayerOf(filled_data, layer)[c] # NaN )
        => /\ filled_data' = filled_data
           /\ global_valid' = global_valid
           /\ fpc' = "layers" /\ layer' = layer + 1 ]_vars

\* a layer without missing cells has been processed after a layer in which a
\* missing cell was repaired
C10_Witness ==
    /\ fpc = "layers" /\ layer = 2 /\ total_layers = 2
    /\ MissingMask(LayerOf(data, 1), coord_valid) = {}
    /\ LayerOf(filled_data, 1) = LayerOf(data, 1)
    /\ \E c \in global_valid : Repaired(c, 0)
    /\ global_valid # {}

----------------------------------------------------------------------------
(* Claims about batch_idw *)

\* the second call of batch_idw has returned
SecondCallDone == rpass = 2 /\ rpc = "done"

\* C11: two calls of batch_idw on the same samples and grid with the same
\* MAX_DISTANCE return the same array, whether each was run by the worker
\* pool, its jobs ending in any order, or by the sequential loop; and what a
\* job of the pool returns is what process_block returns for its block alone
C11_RegridDeterminism ==
    /\ (SecondCallDone /\ max_distance = prev_distance) => grid_result = prev_result
    /\ rpc = "parallel" =>
          \A t \in 1..Len(blocks) :
             results[t] # <<>> =>
                results[t] = process_block(lon_valid, lat_valid, data_valid,
                                           grid_lon, grid_lat, blocks[t], max_distance)

\* C11 witness: a call run by the pool over more than one block has returned
\* after a call run by the loop, with a node filled and a node left at the
\* sentinel
C11_Witness ==
    /\ SecondCallDone /\ max_distance = prev_distance
    /\ parallel /\ ~prev_parallel /\ Len(blocks) > 1
    /\ \E c \in DOMAIN grid_result.at : grid_result.at[c] = CUSTOM_MISSING
    /\ \E c \in DOMAIN grid_result.at :
          grid_result.at[c] # CUSTOM_MISSING /\ grid_result.at[c] # NaN

\* C12: every node that a call of batch_idw fills with a value other than
\* the sentinel is filled with a value other than the sentinel by a call
\* with the same samples and grid and a MAX_DISTANCE that is not smaller, so
\* the count of the filled nodes does not decrease
C12_CoverageMonotone ==
    (SecondCallDone /\ prev_distance <= max_distance) =>
        /\ \A c \in DOMAIN prev_result.at :
              prev_result.at[c] # CUSTOM_MISSING => grid_result.at[c] # CUSTOM_MISSING
        /\ valid_count >= ValidCount(prev_result)

\* C12 witness: the larger MAX_DISTANCE has filled a node more, beside the
\* nodes the smaller one had filled
C12_Witness ==
    /\ SecondCallDone /\ prev_distance < max_distance
    /\ ValidCount(prev_result) > 0
    /\ valid_count > ValidCount(prev_result)

----------------------------------------------------------------------------
(* Claims about an interpolation request *)

\* C13: a request that fails is reported to the caller as a failure, and no
\* destination file exists after it
C13_FailureWritesNoFile ==
    /\ (ipc = "done" /\ run_ret = "None") => perform = "raised"
    /\ perform = "raised" => ~dest.exists

\* save_to_hdf5 is called, and the file opened, only when preprocess_data has
\* returned and every layer it returned has been regridded
C13_SaveAfterRegridding ==
    dest.exists =>
        /\ pre.err = "" /\ pre.total_layers > 0
        /\ Len(all_results) = pre.total_layers

\* C14: for a variable with several layers, layers_processed holds the first
\* and the last of the layers that preprocess_data kept, and the dataset
\* written has as many layers as that range
C14_LayersProcessed ==
    (perform = "returned" /\ run_req.data.shape[3] > 1) =>
        /\ dest.layers_processed = << pre.layer_min, pre.layer_max >>
        /\ Len(dest.layers) = pre.layer_max - pre.layer_min + 1

----------------------------------------------------------------------------
(* Claims about extract_hdf5_subset *)

IsPrefix(p, q) == Len(p) <= Len(q) /\ SubSeq(q, 1, Len(p)) = p

\* the extraction has returned True for a target_path that the source holds
Extracted == xpc = "done" /\ x_ret = "True" /\ InFile(x_in.file, x_in.target_path)

\* C15: after an extraction of a path that the source file holds, the output
\* file holds, at its own path, the object at that path and, when it is a
\* group, every group and dataset below it, with the kind, the contents and
\* the attributes it has in the source
C15_SubsetRoundTrip ==
    Extracted =>
        \A q \in DOMAIN x_in.file.objs :
           IsPrefix(Resolve(x_in.target_path), q) =>
              /\ q \in DOMAIN x_dst.objs
              /\ x_dst.objs[q] = x_in.file.objs[q]

\* C15 witness: a group other than the root has been extracted that holds a
\* dataset and a group with a dataset of its own, with attributes
C15_Witness ==
    /\ Extracted
    /\ Resolve(x_in.target_path) = <<"g">>
    /\ {<<"g", "d">>, <<"g", "h">>, <<"g", "h", "e">>} \subseteq DOMAIN x_dst.objs
    /\ x_dst.objs[<<"g", "h", "e">>].attrs # NoAttrs
    /\ x_dst.objs[<<"g", "h">>].attrs # NoAttrs
    /\ <<"t">> \in DOMAIN x_in.file.objs

----------------------------------------------------------------------------
(* Claims about normalize_coordinates, on the box crop_file has just
   normalized *)

\* crop_file has called normalize_coordinates and holds what it returned
BoxNormalized == pc = "opened"

\* C16: the latitudes that normalize_coordinates returns satisfy
\* -90 <= lat_min <= lat_max <= 90
C16_NormalizedLatitudesOrdered ==
    BoxNormalized => (-900 <= lat_min /\ lat_min <= lat_max /\ lat_max <= 900)

\* C17: the longitudes that normalize_coordinates returns lie in (-180, 180],
\* and a bound given as 180 is returned as 180
C17_NormalizedLongitudeRange ==
    BoxNormalized =>
        LET lon_lo == lon_ranges[1][1]
            lon_hi == lon_ranges[Len(lon_ranges)][2]
            east   == F64FromTenths(1800)
            west   == F64FromTenths(-1800)
        IN  /\ F64Less(west, lon_lo) /\ F64Leq(lon_lo, east)
            /\ F64Less(west, lon_hi) /\ F64Leq(lon_hi, east)
            /\ req.lon_min = 1800 => lon_lo = east
            /\ req.lon_max = 1800 => lon_hi = east

----------------------------------------------------------------------------
(* Claims about the dimension analysis and the crop of one dataset *)

\* find_lat_lon_dimensions has returned for the drawn shapes
DimsFound == dpc \in {"found", "cropped"}

\* the first axis (0-based) of shape whose length is n and which is not the
\* axis excluded, None when there is none
FirstAxisOfLength(shape, n, excluded) ==
    LET hits == {i \in 0..(Len(shape) - 1) : shape[i + 1] = n /\ i # excluded}
    IN  IF hits = {} THEN None ELSE CHOOSE i \in hits : \A j \in hits : i <= j

\* C18: for rank-1 latitude and longitude arrays, find_lat_lon_dimensions
\* returns as latitude axis the first axis of the data shape whose length is
\* the latitude length and as longitude axis the first other axis whose
\* length is the longitude length, and the two returned axes are distinct,
\* also when latitude and longitude have the same length.
C18_Rank1AxesFirstAndDistinct ==
    (DimsFound /\ Len(d_lat_shape) = 1 /\ Len(d_lon_shape) = 1) =>
        LET la == FirstAxisOfLength(d_data_shape, d_lat_shape[1], None)
            lo == FirstAxisOfLength(d_data_shape, d_lon_shape[1], la)
        IN  /\ d_dims.lat_dim = la
            /\ d_dims.lon_dim = lo
            /\ (d_dims.lat_dim # None /\ d_dims.lon_dim # None)
                   => d_dims.lat_dim # d_dims.lon_dim

\* the pairs of distinct axes of the data shape with lengths (R, C)
Assignments ==
    {ab \in (0..(Len(d_data_shape) - 1)) \X (0..(Len(d_data_shape) - 1)) :
        /\ ab[1] # ab[2]
        /\ d_data_shape[ab[1] + 1] = d_lat_shape[1]
        /\ d_data_shape[ab[2] + 1] = d_lat_shape[2]}

\* the adjacent pairs among them
AdjacentAssignments == {ab \in Assignments : ab[2] = ab[1] + 1}

\* C19: for rank-2 coordinate fields of shape (R, C), find_lat_lon_dimensions
\* returns the first adjacent axis pair (i, i+1) with lengths (R, C) when one
\* exists; otherwise two distinct axes with lengths R and C whenever such
\* axes exist; in both cases extra_dims is exactly the other axes; and
\* (None, None) is returned only when no such assignment exists.
C19_Rank2AxisAssignment ==
    (DimsFound /\ Len(d_lat_shape) = 2 /\ Len(d_lon_shape) = 2) =>
        LET ret == << d_dims.lat_dim, d_dims.lon_dim >>
        IN  /\ AdjacentAssignments # {} =>
                 /\ ret \in AdjacentAssignments
                 /\ \A ab \in AdjacentAssignments : ret[1] <= ab[1]
            /\ Assignments # {} => ret \in Assignments
            /\ ret \in Assignments =>
                 /\ d_dims.is_2d_grid
                 /\ SeqToSet(d_dims.extra_dims)
                      = (0..(Len(d_data_shape) - 1)) \ {ret[1], ret[2]}
                 /\ Len(d_dims.extra_dims) = Len(d_data_shape) - 2
            /\ Assignments = {} <=> ret = << None, None >>

\* C19 witness: the analysis has returned two separate axes of a data shape
\* with no adjacent pair, with R = C, and an extra axis between them
C19_Witness ==
    /\ DimsFound /\ Len(d_lat_shape) = 2 /\ Len(d_lon_shape) = 2
    /\ d_lat_shape[1] = d_lat_shape[2]
    /\ AdjacentAssignments = {}
    /\ d_dims.lat_dim = 0 /\ d_dims.lon_dim = 2 /\ d_dims.extra_dims = <<1>>

\* C20: with rank-2 coordinates and a variable that has extra axes, wherever
\* the latitude and longitude axes sit, the cropped array has the source
\* shape with the latitude axis replaced by the number of selected rows and
\* the longitude axis by the number of selected columns, the extra axes
\* kept in full, and each element is the source element at the selected row
\* and the selected column (the outer product of the two selections).
C20_OuterProductCrop ==
    (/\ dpc = "cropped" /\ Len(d_lat_shape) = 2 /\ Len(d_lon_shape) = 2
     /\ d_dims.lat_dim # None /\ d_dims.lon_dim # None
     /\ Len(d_dims.extra_dims) > 0) =>
        LET n   == Len(d_data_shape)
            shp == [k \in 1..n |->
                      IF k - 1 = d_dims.lat_dim THEN Len(d_sel[1])
                      ELSE IF k - 1 = d_dims.lon_dim THEN Len(d_sel[2])
                      ELSE d_data_shape[k]]
        IN  /\ d_crop.tag = "ok"
            /\ d_crop.data.shape = shp
            /\ \A idx \in IndexSet(shp) :
                 d_crop.data.at[idx]
                   = [k \in 1..n |->
                        IF k - 1 = d_dims.lat_dim THEN d_sel[1][idx[k] + 1]
                        ELSE IF k - 1 = d_dims.lon_dim THEN d_sel[2][idx[k] + 1]
                        ELSE idx[k]]

----------------------------------------------------------------------------
(* Claims about the group set-up of one crop *)

\* the group paths a group argument names: the path and its ancestors
WantedGroups(arg) == IF arg.none THEN {} ELSE Ancestors(arg.parts)

\* C21: create_hierarchy succeeds for any group path on a destination in
\* which a prefix of the path already exists (also one created by the
\* earlier create_hierarchy call of the same crop): it creates exactly the
\* missing ancestor groups in root-to-leaf order, reuses the existing ones
\* without error and returns the group located at the path.
C21_HierarchyOnExistingPrefix ==
    /\ hpc # "failed"
    /\ hpc \in {"data", "done"} =>
         /\ h_out.data = h_args.data_group.parts
         /\ WantedGroups(h_args.data_group) \subseteq h_dst.groups
    /\ hpc = "done" =>
         /\ h_out.latlon = IF h_args.latlon_group.none THEN h_out.data
                           ELSE h_args.latlon_group.parts
         /\ h_dst.groups = WantedGroups(h_args.data_group)
                             \cup WantedGroups(h_args.latlon_group)
    /\ SeqToSet(h_created) = h_dst.groups
    /\ \A i, j \in 1..Len(h_created) :
         /\ i # j => h_created[i] # h_created[j]
         /\ (h_created[i] \in Ancestors(h_created[j]) /\ i # j) => i < j

\* C22: during one crop, group attributes are copied from the source group
\* at the same path only for destination groups that the call created; a
\* reused group gets no second copy and keeps its attributes; the root
\* attributes are copied exactly once, before any group is created,
\* whatever the data and latlon group paths are.
C22_AttributesCopiedOnceForCreatedGroups ==
    /\ hpc = "start" => (h_copies = <<>> /\ h_dst.groups = {})
    /\ hpc # "start" =>
         /\ h_copies[1] = <<>>
         /\ h_attrs[<<>>] = SourceAttrs(<<>>)
    /\ \A i, j \in 1..Len(h_copies) : i # j => h_copies[i] # h_copies[j]
    /\ \A i \in 2..Len(h_copies) :
         /\ h_copies[i] \in SeqToSet(h_created)
         /\ Contains(h_src, <<>>, h_copies[i])
    /\ \A g \in h_dst.groups :
         /\ Contains(h_src, <<>>, g) <=> g \in SeqToSet(h_copies)
         /\ h_attrs[g] = IF Contains(h_src, <<>>, g) THEN SourceAttrs(g) ELSE NoAttrs

\* C22 witness: both create_hierarchy calls returned, the second one reused
\* the group G of the first and created a group of its own, and the
\* attributes of the root and of three groups have been copied
C22_Witness ==
    /\ hpc = "done"
    /\ h_out.data = <<"G", "H">> /\ h_out.latlon = <<"G", "G">>
    /\ h_copies = << <<>>, <<"G">>, <<"G", "H">>, <<"G", "G">> >>

----------------------------------------------------------------------------
(* Further claims about preprocess_data and batch_idw *)

\* the mean of the values of the cells V of a layer, NaN when V is empty
MeanOf(data_layer, V) ==
    IF V = {} THEN NaN
    ELSE LET D   == ProductOver(V, [v \in V |-> data_layer[v][2]])
             num == SumOver(V, [v \in V |-> data_layer[v][1] * (D \div data_layer[v][2])])
         IN  Rat(num, D * Cardinality(V))

\* C23: in preprocess_data, when a layer has missing cells and fewer than 5
\* valid (non-missing, coordinate-valid) samples, every missing cell of the
\* layer is filled with the mean of the layer's valid cells and is removed
\* from the globally valid set.
C23_SparseLayerMeanFilled ==
    \A l \in 0..(layer - 1) :
        LET data_layer == LayerOf(data, l)
            mm         == MissingMask(data_layer, coord_valid)
            V          == coord_valid \ mm
        IN  (fpc = "layers" /\ mm # {} /\ Cardinality(V) < 5) =>
                \A c \in mm :
                    /\ LayerOf(filled_data, l)[c] = MeanOf(data_layer, V)
                    /\ c \notin global_valid

\* the blocks of the list that hold the node c = <<i, j>> of the grid
BlocksHolding(c) ==
    {t \in 1..Len(blocks) : /\ blocks[t][1] <= c[1] /\ c[1] < blocks[t][2]
                            /\ blocks[t][3] <= c[2] /\ c[2] < blocks[t][4]}

\* C24: for any grid size (also one that is no multiple of BLOCK_SIZE or is
\* smaller than one block) the blocks built by batch_idw are pairwise
\* disjoint index rectangles whose union is the whole grid, so every cell
\* of the output array is written by exactly one block result and none
\* keeps its initial value because no block covered it.
C24_BlocksPartitionGrid ==
    rpc \in {"parallel", "sequential", "done"} =>
        /\ \A t \in 1..Len(blocks) :
             /\ 0 <= blocks[t][1] /\ blocks[t][1] < blocks[t][2]
             /\ blocks[t][2] <= Len(grid_lat)
             /\ 0 <= blocks[t][3] /\ blocks[t][3] < blocks[t][4]
             /\ blocks[t][4] <= Len(grid_lon)
        /\ \A c \in IndexSet(<< Len(grid_lat), Len(grid_lon) >>) :
             /\ Cardinality(BlocksHolding(c)) = 1
             /\ rpc = "done" =>
                  LET t == CHOOSE u \in BlocksHolding(c) : TRUE
                  IN  grid_result.at[c]
                        = results[t].data.at[<< c[1] - blocks[t][1], c[2] - blocks[t][3] >>]

\* C24 witness: batch_idw has returned for a grid of more than BLOCK_SIZE
\* nodes along both axes, cut into four blocks of which three are partial,
\* with a node of a partial block filled
C24_Witness ==
    /\ rpc = "done"
    /\ Len(grid_lat) = MaxGridLen /\ Len(grid_lon) = MaxGridLen /\ Len(blocks) = 4
    /\ blocks[2] = << 0, BLOCK_SIZE, BLOCK_SIZE, MaxGridLen >>
    /\ blocks[4] = << BLOCK_SIZE, MaxGridLen, BLOCK_SIZE, MaxGridLen >>
    /\ grid_result.at[<< BLOCK_SIZE - 1, BLOCK_SIZE >>] # CUSTOM_MISSING

\* the margin max(2 x resolution, 0.1 degrees) in quarter degrees: 0.1
\* degrees is 2/5 of a quarter degree, below 2 x resolution for every
\* resolution of at least a quarter degree
GridMargin(resolution) == 2 * resolution

\* the last element of a non-empty sequence
LastOf(s) == s[Len(s)]

\* the axis starts at lo - margin, has the step of the resolution and stops
\* before hi + margin
AxisWithMargin(axis, lo, hi, resolution) ==
    /\ axis # <<>>
    /\ axis[1] = lo - GridMargin(resolution)
    /\ \A i \in 1..(Len(axis) - 1) : axis[i + 1] = axis[i] + resolution
    /\ LastOf(axis) < hi + GridMargin(resolution)
    /\ LastOf(axis) + resolution >= hi + GridMargin(resolution)

\* C25: the grid that run_interpolation builds spans the valid-data extent
\* plus a margin of max(2 x resolution, 0.1) degrees on every side at the
\* step of the resolution: the first node of each axis is at the extent's
\* minimum minus the margin, the nodes stop before the maximum plus the
\* margin, and so every point given to the regridder lies within the span
\* of the grid axes.
C25_GridSpansExtentWithMargin ==
    ipc = "regrid" =>
        /\ AxisWithMargin(run_grid[1], pre.lon_min, pre.lon_max, run_req.resolution)
        /\ AxisWithMargin(run_grid[2], pre.lat_min, pre.lat_max, run_req.resolution)
        /\ \A i \in 1..Len(pre.valid_lon) :
             /\ run_grid[1][1] <= pre.valid_lon[i]
             /\ pre.valid_lon[i] <= LastOf(run_grid[1])
             /\ run_grid[2][1] <= pre.valid_lat[i]
             /\ pre.valid_lat[i] <= LastOf(run_grid[2])

----------------------------------------------------------------------------
(* A further claim about crop_file *)

\* the source holds rank-1 latitude and longitude arrays in its root group
\* and the request names no group
RootRank1Coordinates ==
    /\ req.latlon_group.none /\ req.data_group.none
    /\ <<"lat">> \in DOMAIN src.dsets /\ <<"lon">> \in DOMAIN src.dsets
    /\ Len(src.dsets[<<"lat">>].shape) = 1 /\ Len(src.dsets[<<"lon">>].shape) = 1

\* the indices of the source longitudes inside the box as the caller gave it
LonIndicesInGivenBox ==
    SortedSeq({i \in 0..(src.dsets[<<"lon">>].shape[1] - 1) :
                 /\ req.lon_min <= src.dsets[<<"lon">>].at[<<i>>]
                 /\ src.dsets[<<"lon">>].at[<<i>>] <= req.lon_max})

\* the indices of the source latitudes inside the clamped latitude range
LatIndicesInRange ==
    SortedSeq({i \in 0..(src.dsets[<<"lat">>].shape[1] - 1) :
                 InLatRange(src.dsets[<<"lat">>].at[<<i>>], lat_min, lat_max)})

\* C26: normalization does not change the selection of a box whose longitude
\* bounds are already within [-180, 180] with lon_min <= lon_max: crop_file
\* selects exactly the indices with lon_min <= lon <= lon_max; the box
\* -180..180 selects every longitude in [-180, 180] and a box with
\* lon_max = 180 includes the points at 180.
C26_InRangeBoxSelectsAsGiven ==
    (/\ pass = 1 /\ pc \in {"datasets", "raised", "done"} /\ RootRank1Coordinates
     /\ -1800 <= req.lon_min /\ req.lon_min <= req.lon_max /\ req.lon_max <= 1800
     /\ LonIndicesInGivenBox # <<>> /\ LatIndicesInRange # <<>>) =>
        all_lon_indices = LonIndicesInGivenBox

\* C27: block partitioning does not change the result: at every grid node
\* the value that process_block computed from the candidates of its block
\* (the points inside the block's bounding box expanded by MAX_DISTANCE) is
\* the value idw_interpolation computes for the node from the full point
\* set, so the array batch_idw returns does not depend on BLOCK_SIZE.
C27_BlocksDoNotChangeValues ==
    rpc = "done" =>
        \A c \in IndexSet(<< Len(grid_lat), Len(grid_lon) >>) :
            grid_result.at[c]
              = idw_interpolation(lon_valid, lat_valid, data_valid, 1..Len(lon_valid),
                                  << << grid_lon[c[2] + 1], grid_lat[c[1] + 1] >> >>,
                                  max_distance)[1]

\* C27 witness: batch_idw has returned for a grid of two rows and more than
\* BLOCK_SIZE columns and four points; the point at longitude 0 is no
\* candidate of the second block, which holds the node at row 1, column
\* BLOCK_SIZE, and that node is filled from the three others
C27_Witness ==
    /\ rpc = "done" /\ max_distance = 3
    /\ Len(grid_lat) = 2 /\ Len(grid_lon) = MaxGridLen /\ Len(blocks) = 2
    /\ lon_valid = << 0, 3, 2, 3 >> /\ lat_valid = << 1, 1, 2, 3 >>
    /\ grid_lon[BLOCK_SIZE + 1] = 4 /\ grid_lat[2] = 2
    /\ grid_result.at[<< 1, BLOCK_SIZE >>] # CUSTOM_MISSING
    /\ grid_result.at[<< 0, 0 >>] = CUSTOM_MISSING

\* the samples closer than MAX_DISTANCE to the grid node c
NeighboursOfNode(c) ==
    {i \in 1..Len(lon_valid) :
        (lon_valid[i] - grid_lon[c[2] + 1]) * (lon_valid[i] - grid_lon[c[2] + 1])
        + (lat_valid[i] - grid_lat[c[1] + 1]) * (lat_valid[i] - grid_lat[c[1] + 1])
          < max_distance * max_distance}

\* the samples that lie on the grid node c
SamplesOnNode(c) ==
    {i \in 1..Len(lon_valid) :
        lon_valid[i] = grid_lon[c[2] + 1] /\ lat_valid[i] = grid_lat[c[1] + 1]}

\* a <= b for two floats that are no NaN
LessEq(a, b) == a[1] * b[2] <= b[1] * a[2]

\* C28: inverse-distance weighting never divides by zero: when a grid node
\* coincides with a source sample (distance 0) and enough neighbours are in
\* range, the value written is well defined, a weighted average bounded by
\* the neighbours' values, and no NaN.
C28_CoincidentSampleWellDefined ==
    rpc = "done" =>
        \A c \in IndexSet(<< Len(grid_lat), Len(grid_lon) >>) :
            (SamplesOnNode(c) # {} /\ Cardinality(NeighboursOfNode(c)) >= MIN_NEIGHBORS) =>
                /\ ~isnan(grid_result.at[c])
                /\ grid_result.at[c] # CUSTOM_MISSING
                /\ \E i \in NeighboursOfNode(c) : LessEq(data_valid[i], grid_result.at[c])
                /\ \E i \in NeighboursOfNode(c) : LessEq(grid_result.at[c], data_valid[i])

----------------------------------------------------------------------------
(* Claims about the job system *)

\* the statuses a task can leave a status for
ForwardFrom(st) ==
    CASE st = "NONE"      -> {"PENDING", "RUNNING"}
      [] st = "PENDING"   -> {"RUNNING"}
      [] st = "RUNNING"   -> {"COMPLETED", "FAILED"}
      [] st = "COMPLETED" -> {}
      [] st = "FAILED"    -> {}

\* C29: under every interleaving of the request handlers and the worker, the
\* status stored for a task id only moves forward PENDING -> RUNNING ->
\* COMPLETED or FAILED: once the worker has written RUNNING or a terminal
\* status for a task, it is never overwritten by PENDING.
C29_StatusMovesForward ==
    [][\A t \in TaskIds :
         task_statuses'[t].status # task_statuses[t].status
            => task_statuses'[t].status \in ForwardFrom(task_statuses[t].status)]_vars

Terminal(t) == task_statuses[t].status \in {"COMPLETED", "FAILED"}

\* the worker takes the tasks in the order of their submission
TakenInSubmissionOrder == IsPrefix(taken, submitted)

\* a file is served only for a task whose status is COMPLETED
DownloadOnlyCompleted ==
    (resp.route = "download" /\ resp.code = 200) => resp.status = "COMPLETED"

\* an accepted task eventually has a terminal status
AcceptedTerminates == \A t \in TaskIds : (hnd[t] = "accepted") ~> Terminal(t)

\* a terminal status stays the status of its task
TerminalStays ==
    \A t \in TaskIds :
      /\ [](task_statuses[t].status = "COMPLETED" => [](task_statuses[t].status = "COMPLETED"))
      /\ [](task_statuses[t].status = "FAILED" => [](task_statuses[t].status = "FAILED"))

\* C30: every accepted task is taken by the worker in submission order and,
\* the worker running and every engine call returning or raising, eventually
\* has the status COMPLETED or FAILED; from then on /api/status reports that
\* terminal status, and /download serves a file only for a COMPLETED task.
C30_AcceptedTasksTerminate ==
    /\ []TakenInSubmissionOrder
    /\ AcceptedTerminates
    /\ TerminalStays
    /\ []DownloadOnlyCompleted

=============================================================================
